---- MODULE Spec2Model ----
(***************************************************************************)
(* Model of the streaming ingestion and chat orchestration of chatbot-ai:  *)
(*   - OpenAIClient.createStream (src/lib/openaiClient.js): line framing   *)
(*     of the chunked response body, payload decoding, tool-call assembly; *)
(*   - useChat.sendMessage / stopMessage (src/hooks/useChat.js) over the   *)
(*     messages store and the runtime store (src/state/messagesStore.js).  *)
(* Text is a sequence of units (one-character strings; a tool name is one  *)
(* unit).  The response body is a sequence of bytes; the only multi-byte   *)
(* character of the model is "é" (bytes C3 A9).                            *)
(***************************************************************************)
EXTENDS Integers, Sequences, FiniteSets, TLC

(***************************************************************************)
(* Bounds of the model.                                                    *)
(***************************************************************************)
MaxFrames == 2
MaxDeltas == 2
MaxCalls == 3
MaxChunks == 1
MaxLog == 3

(***************************************************************************)
(* Text helpers.                                                           *)
(***************************************************************************)
NL == "\n"

\* 'data: ' and '[DONE]', each written in two units so that a chunk can end
\* inside it.
Prefix == <<"data:", " ">>

DoneSentinel == <<"[DONE", "]">>

Range(s) == {s[i] : i \in 1..Len(s)}

StartsWith(s, p) == Len(s) >= Len(p) /\ SubSeq(s, 1, Len(p)) = p

Slice(s, n) == SubSeq(s, n + 1, Len(s))

RECURSIVE Flatten(_)
Flatten(ss) == IF ss = <<>> THEN <<>> ELSE Head(ss) \o Flatten(Tail(ss))

\* The k-th smallest element of a finite set of integers.
Nth(S, k) == CHOOSE p \in S : Cardinality({q \in S : q <= p}) = k

\* String.prototype.split('\n'): always at least one element, the last one
\* is the text after the last newline.
Split(s) ==
  LET nls   == {i \in 1..Len(s) : s[i] = NL}
      n     == Cardinality(nls)
      from(k) == IF k = 1 THEN 1 ELSE Nth(nls, k - 1) + 1
      to(k)   == IF k = n + 1 THEN Len(s) ELSE Nth(nls, k) - 1
  IN  [k \in 1..(n + 1) |-> SubSeq(s, from(k), to(k))]

(***************************************************************************)
(* TextDecoder.decode(value, {stream: true}): UTF-8 decoding that carries  *)
(* an incomplete multi-byte sequence over to the next call.  pending is    *)
(* the decoder's carried bytes; the result is the decoded text and the new *)
(* carry.  A broken sequence decodes to the replacement character.         *)
(***************************************************************************)
Replacement == "?"

\* The text decoded from the carried bytes followed by bytes, and the bytes
\* left incomplete at the end.
Utf8Decode(pending, bytes) ==
  LET all     == pending \o bytes
      n       == Len(all)
      carry   == n > 0 /\ all[n] = "C3"
      mark    == [i \in 1..n |->
                    IF all[i] = "C3"
                    THEN (IF i = n THEN ""
                          ELSE IF all[i + 1] = "A9" THEN "é" ELSE Replacement)
                    ELSE IF all[i] = "A9"
                    THEN (IF i > 1 /\ all[i - 1] = "C3" THEN "" ELSE Replacement)
                    ELSE all[i]]
      Kept(c) == c # ""
  IN  [text    |-> SelectSeq(mark, Kept),
       pending |-> IF carry THEN <<"C3">> ELSE <<>>]

\* decode without the stream option: nothing is carried, a sequence cut by
\* the end of the chunk is replaced.
DecodeNoStream(pending, bytes) ==
  LET r == Utf8Decode(<<>>, bytes)
  IN  [text |-> IF r.pending = <<>> THEN r.text ELSE Append(r.text, Replacement),
       pending |-> <<>>]

Decode(pending, bytes) == Utf8Decode(pending, bytes)

\* The server side: UTF-8 encoding of a text.
RECURSIVE Utf8Encode(_)
Utf8Encode(text) ==
  IF text = <<>> THEN <<>>
  ELSE (IF Head(text) = "é" THEN <<"C3", "A9">> ELSE <<Head(text)>>)
       \o Utf8Encode(Tail(text))

(***************************************************************************)
(* JSON.  A payload text is written in a compact syntax, one unit per      *)
(* lexeme:  { }  is an object without choices;                             *)
(*   { D [c <char>] (k <index> [n <name>] [g <argument units> ;])* }       *)
(* is an object whose choices[0].delta carries an optional content and a   *)
(* list of tool_calls entries (index, optional function.name, optional     *)
(* function.arguments).  JSON.parse throws on every other text.            *)
(***************************************************************************)
DigitChars == <<"0", "1", "2", "3", "4", "5", "6", "7", "8", "9">>

Digits == Range(DigitChars)

DigitVal(c) == (CHOOSE i \in 1..10 : DigitChars[i] = c) - 1

RECURSIVE ParseInt(_)
ParseInt(ds) ==
  IF ds = <<>> THEN 0
  ELSE 10 * ParseInt(SubSeq(ds, 1, Len(ds) - 1)) + DigitVal(ds[Len(ds)])

TextChars == {"a", "b", "é"}

NameUnits == {"calculate", "get_current_time", "unknown_tool"}

ExprChars == {"1", "2", "+", "x"}

ArgUnits == {"{", "}", "E"} \cup ExprChars

\* The values JSON.parse can return for an argument buffer.
NoArgs == [kind |-> "none", hasExpression |-> FALSE, expression |-> <<>>, num |-> 0]

ObjArgs(has, e) == [kind |-> "object", hasExpression |-> has, expression |-> e, num |-> 0]

NumArgs(n) == [kind |-> "number", hasExpression |-> FALSE, expression |-> <<>>, num |-> n]

NullArgs == [kind |-> "null", hasExpression |-> FALSE, expression |-> <<>>, num |-> 0]

\* JSON.parse of an argument buffer: {} , {"expression":"<chars>"} or a
\* number; ok is FALSE when JSON.parse throws.
ParseArgsPrefix(t) ==
  IF t # <<>> /\ t[1] = "{" THEN [ok |-> TRUE, value |-> ObjArgs(FALSE, <<>>)]
  ELSE IF t # <<>> /\ t[1] \in Digits THEN [ok |-> TRUE, value |-> NumArgs(DigitVal(t[1]))]
  ELSE [ok |-> FALSE, value |-> NoArgs]

ParseArgs(t) ==
  IF t = <<"{", "}">> THEN [ok |-> TRUE, value |-> ObjArgs(FALSE, <<>>)]
  ELSE IF /\ Len(t) >= 3
          /\ t[1] = "{" /\ t[2] = "E" /\ t[Len(t)] = "}"
          /\ \A i \in 3..(Len(t) - 1) : t[i] \in ExprChars
       THEN [ok |-> TRUE, value |-> ObjArgs(TRUE, SubSeq(t, 3, Len(t) - 1))]
  ELSE IF t # <<>> /\ \A i \in 1..Len(t) : t[i] \in Digits
       THEN [ok |-> TRUE, value |-> NumArgs(ParseInt(t))]
  ELSE [ok |-> FALSE, value |-> NoArgs]

\* The server side: JSON text of an argument value.
RenderArgs(v) ==
  IF v.kind = "object"
  THEN IF v.hasExpression THEN <<"{", "E">> \o v.expression \o <<"}">> ELSE <<"{", "}">>
  ELSE <<DigitChars[v.num + 1]>>

ParseFail == [ok |-> FALSE, choice |-> FALSE, content |-> "", tool_calls |-> <<>>]

FirstSemi(s) ==
  IF \E i \in 1..Len(s) : s[i] = ";"
  THEN CHOOSE i \in 1..Len(s) : s[i] = ";" /\ \A j \in 1..(i - 1) : s[j] # ";"
  ELSE 0

RECURSIVE ParseCalls(_)
ParseCalls(b) ==
  IF b = <<>> THEN [ok |-> TRUE, calls |-> <<>>]
  ELSE IF Len(b) < 2 \/ b[1] # "k" \/ b[2] \notin Digits THEN [ok |-> FALSE, calls |-> <<>>]
  ELSE LET r1      == Slice(b, 2)
           hasName == Len(r1) >= 2 /\ r1[1] = "n" /\ r1[2] \in NameUnits
           r2      == IF hasName THEN Slice(r1, 2) ELSE r1
           hasArgs == r2 # <<>> /\ r2[1] = "g"
           semi    == FirstSemi(r2)
           argsOk  == hasArgs => (semi > 0 /\ \A i \in 2..(semi - 1) : r2[i] \in ArgUnits)
           r3      == IF hasArgs /\ semi > 0 THEN Slice(r2, semi) ELSE r2
           rest    == IF argsOk THEN ParseCalls(r3) ELSE [ok |-> FALSE, calls |-> <<>>]
           call    == [index     |-> DigitVal(b[2]),
                       name      |-> IF hasName THEN r1[2] ELSE "",
                       arguments |-> IF hasArgs /\ semi > 0 THEN SubSeq(r2, 2, semi - 1) ELSE <<>>]
       IN  IF rest.ok THEN [ok |-> TRUE, calls |-> <<call>> \o rest.calls]
           ELSE [ok |-> FALSE, calls |-> <<>>]

\* JSON.parse(data) followed by parsed.choices?.[0] and choice.delta.
ParsePayload(t) ==
  IF t = <<"{", "}">>
  THEN [ok |-> TRUE, choice |-> FALSE, content |-> "", tool_calls |-> <<>>]
  ELSE IF Len(t) >= 3 /\ t[1] = "{" /\ t[2] = "D" /\ t[Len(t)] = "}"
  THEN LET b          == SubSeq(t, 3, Len(t) - 1)
           hasContent == Len(b) >= 2 /\ b[1] = "c" /\ b[2] \in TextChars
           calls      == ParseCalls(IF hasContent THEN Slice(b, 2) ELSE b)
       IN  IF calls.ok
           THEN [ok |-> TRUE, choice |-> TRUE,
                 content |-> IF hasContent THEN b[2] ELSE "",
                 tool_calls |-> calls.calls]
           ELSE ParseFail
  ELSE ParseFail

\* The server side: JSON text of a payload object.
RenderCall(d) ==
  <<"k", DigitChars[d.index + 1]>>
  \o (IF d.name = "" THEN <<>> ELSE <<"n", d.name>>)
  \o (IF d.arguments = <<>> THEN <<>> ELSE <<"g">> \o d.arguments \o <<";">>)

RECURSIVE RenderCalls(_)
RenderCalls(ds) == IF ds = <<>> THEN <<>> ELSE RenderCall(Head(ds)) \o RenderCalls(Tail(ds))

RenderPayload(p) ==
  IF ~p.choice THEN <<"{", "}">>
  ELSE <<"{", "D">>
       \o (IF p.content = "" THEN <<>> ELSE <<"c", p.content>>)
       \o RenderCalls(p.tool_calls)
       \o <<"}">>

(***************************************************************************)
(* OpenAIClient.createStream.  The generator's local state:                *)
(*   buffer   the text after the last newline seen so far;                 *)
(*   pending  the bytes carried by the TextDecoder;                        *)
(*   calls    incompleteToolCalls, a map from index to {id, name, args};   *)
(*   out      the events yielded so far;                                   *)
(*   outAt    for each yielded event, the number of lines taken from the   *)
(*            body when it was yielded (history, not read by the code);    *)
(*   lineNo   the number of lines taken from the body so far (history);    *)
(*   status   "reading", "returned" (sentinel seen), "completed" (source   *)
(*            done) or "failed" (read error rethrown);                     *)
(*   released whether reader.releaseLock() has run;                        *)
(*   closed   whether the body of the response is finished: its source has *)
(*            ended or has failed.  createStream never cancels the reader, *)
(*            so nothing else finishes it.                                 *)
(***************************************************************************)
TextEvent(c) == [type |-> "text", content |-> c, id |-> 0, name |-> "", args |-> NoArgs]

ToolCallEvent(id, name, args) ==
  [type |-> "tool_call", content |-> "", id |-> id, name |-> name, args |-> args]

NewGen ==
  [buffer |-> <<>>, pending |-> <<>>, calls |-> <<>>, out |-> <<>>, outAt |-> <<>>,
   lineNo |-> 0, status |-> "reading", released |-> FALSE, closed |-> FALSE]

Yield(g, ev) == [g EXCEPT !.out = Append(@, ev), !.outAt = Append(@, g.lineNo)]

\* incompleteToolCalls.delete(toolCallId)
MapDelete(m, k) == [i \in (DOMAIN m) \ {k} |-> m[i]]

MapSet(m, k, v) == [i \in (DOMAIN m) \cup {k} |-> IF i = k THEN v ELSE m[i]]

\* the entry is kept after the yield (never deleted)
AfterEmitKeep(calls, k, cur) == MapSet(calls, k, cur)

AfterEmit(calls, k, cur) == MapDelete(calls, k)

\* the argument chunk replaces the buffer instead of extending it
AccumulateArgsReplace(args, chunk) == IF chunk # <<>> THEN chunk ELSE args

AccumulateArgs(args, chunk) == IF chunk # <<>> THEN args \o chunk ELSE args

\* every tool call is accumulated in one shared entry
CallKeyShared(d) == 0

\* const toolCallId = toolCall.index
CallKey(d) == d.index

\* One iteration of "for (const toolCall of choice.delta.tool_calls)".
IngestDelta(g, d) ==
  LET k    == CallKey(d)
      old  == IF k \in DOMAIN g.calls THEN g.calls[k]
              ELSE [id |-> k, name |-> "", args |-> <<>>]
      cur  == [id   |-> old.id,
               name |-> IF d.name # "" THEN d.name ELSE old.name,
               args |-> AccumulateArgs(old.args, d.arguments)]
      p    == ParseArgs(cur.args)
  IN  IF cur.name # "" /\ cur.args # <<>> /\ p.ok
      THEN [Yield(g, ToolCallEvent(cur.id, cur.name, p.value))
              EXCEPT !.calls = AfterEmit(g.calls, k, cur)]
      ELSE [g EXCEPT !.calls = MapSet(g.calls, k, cur)]

RECURSIVE IngestDeltas(_, _)
IngestDeltas(g, ds) ==
  IF ds = <<>> THEN g ELSE IngestDeltas(IngestDelta(g, Head(ds)), Tail(ds))

\* the catch of JSON.parse(data) ends the generator instead of continuing
OnParseErrorHalt(g) == [g EXCEPT !.status = "returned"]

OnParseError(g) == g

\* the tool calls of a payload are handled before its text
ApplyPayloadCallsFirst(g, parsed) ==
  IF ~parsed.choice THEN g
  ELSE LET g1 == IngestDeltas(g, parsed.tool_calls)
       IN  IF parsed.content # "" THEN Yield(g1, TextEvent(parsed.content)) ELSE g1

\* What the body of "for (const line of lines)" does with a decoded payload.
ApplyPayload(g, parsed) ==
  IF ~parsed.choice THEN g
  ELSE IngestDeltas(IF parsed.content # "" THEN Yield(g, TextEvent(parsed.content)) ELSE g,
                    parsed.tool_calls)

\* the sentinel is treated as one more payload line
OnSentinelIgnore(g) == g

OnSentinel(g) == [g EXCEPT !.status = "returned"]

\* One iteration of "for (const line of lines)"; nothing runs after return.
ProcessLine(g0, line) ==
  IF g0.status # "reading" THEN g0
  ELSE LET g == [g0 EXCEPT !.lineNo = @ + 1]
       IN  IF ~StartsWith(line, Prefix) THEN g
           ELSE LET data == Slice(line, Len(Prefix))
                IN  IF data = DoneSentinel THEN OnSentinel(g)
                    ELSE LET parsed == ParsePayload(data)
                         IN  IF parsed.ok THEN ApplyPayload(g, parsed)
                             ELSE OnParseError(g)

RECURSIVE ProcessLines(_, _)
ProcessLines(g, lines) ==
  IF lines = <<>> THEN g ELSE ProcessLines(ProcessLine(g, Head(lines)), Tail(lines))

\* the incomplete last line is dropped instead of kept for the next chunk
RebufferDrop(lines) == <<>>

\* buffer = lines.pop() || ''
Rebuffer(lines) == lines[Len(lines)]

\* One iteration of "while (true)" with a chunk from reader.read().
ProcessChunk(g, value) ==
  LET d     == Decode(g.pending, value)
      lines == Split(g.buffer \o d.text)
      g1    == [g EXCEPT !.pending = d.pending, !.buffer = Rebuffer(lines)]
      g2    == ProcessLines(g1, SubSeq(lines, 1, Len(lines) - 1))
  IN  IF g2.status = "reading" THEN g2 ELSE [g2 EXCEPT !.released = TRUE]

\* reader.read() resolved with done: break, then finally.
SourceDone(g) == [g EXCEPT !.status = "completed", !.released = TRUE, !.closed = TRUE]

\* reader.read() rejected: catch rethrows, then finally.
SourceError(g) == [g EXCEPT !.status = "failed", !.released = TRUE, !.closed = TRUE]

(***************************************************************************)
(* The response bodies the decoder is run on.  A frame is one line of the  *)
(* body: a payload line, a payload line whose JSON is cut short, a blank   *)
(* line, or the sentinel line.                                             *)
(***************************************************************************)
Payload(content, calls) ==
  [ok |-> TRUE, choice |-> TRUE, content |-> content, tool_calls |-> calls]

NoChoicePayload == [ok |-> TRUE, choice |-> FALSE, content |-> "", tool_calls |-> <<>>]

Delta(i, name, arguments) == [index |-> i, name |-> name, arguments |-> arguments]

PayloadFrame(p) == [kind |-> "payload", payload |-> p]

JunkFrame == [kind |-> "junk", payload |-> NoChoicePayload]

BlankFrame == [kind |-> "blank", payload |-> NoChoicePayload]

DoneFrame == [kind |-> "done", payload |-> NoChoicePayload]

RenderFrame(f) ==
  CASE f.kind = "payload" -> Prefix \o RenderPayload(f.payload) \o <<NL>>
    [] f.kind = "junk"    -> Prefix \o <<"{", "D", "c">> \o <<NL>>
    [] f.kind = "blank"   -> <<NL>>
    [] f.kind = "done"    -> Prefix \o DoneSentinel \o <<NL>>

RECURSIVE RenderFrames(_)
RenderFrames(fs) ==
  IF fs = <<>> THEN <<>> ELSE RenderFrame(Head(fs)) \o RenderFrames(Tail(fs))

\* The bytes of the response body.
Wire(fs) == Utf8Encode(RenderFrames(fs))

EmptyObjText == <<"{", "}">>

ExprObjText == <<"{", "E", "2", "}">>

NumText == <<"1", "2">>

FrameAlphabet ==
  { PayloadFrame(Payload("é", <<>>)),
    PayloadFrame(Payload("", <<Delta(0, "calculate", ExprObjText)>>)),
    PayloadFrame(Payload("b", <<Delta(1, "get_current_time", <<"{">>),
                                Delta(1, "", <<"}">>)>>)),
    PayloadFrame(NoChoicePayload),
    JunkFrame, BlankFrame, DoneFrame }

RECURSIVE SeqsUpTo(_, _)
SeqsUpTo(S, n) ==
  IF n = 0 THEN {<<>>}
  ELSE LET r == SeqsUpTo(S, n - 1)
       IN  r \cup {Append(q, x) : q \in {t \in r : Len(t) = n - 1}, x \in S}

\* All ways of cutting a text into at most n non-empty consecutive pieces.
RECURSIVE Cuts(_, _)
Cuts(t, n) ==
  IF n <= 1 \/ Len(t) <= 1 THEN {<<t>>}
  ELSE {<<t>>} \cup
       UNION { {<<SubSeq(t, 1, i)>> \o c : c \in Cuts(SubSeq(t, i + 1, Len(t)), n - 1)}
               : i \in 1..(Len(t) - 1) }

\* A tool call as the endpoint streams it: the name comes with the first
\* delta of its index (alone, or with the first argument chunk), the
\* argument text follows in chunks.
ArgTexts == {<<"calculate", ExprObjText>>, <<"get_current_time", EmptyObjText>>,
             <<"unknown_tool", NumText>>}

Plans(i) ==
  UNION { { [index |-> i, name |-> a[1], chunks |-> c, nameAlone |-> na]
              : c \in Cuts(a[2], MaxDeltas), na \in BOOLEAN }
          : a \in ArgTexts }

RECURSIVE ChunkDeltas(_, _)
ChunkDeltas(i, cs) ==
  IF cs = <<>> THEN <<>> ELSE <<Delta(i, "", Head(cs))>> \o ChunkDeltas(i, Tail(cs))

PlanDeltas(pl) ==
  IF pl.nameAlone
  THEN <<Delta(pl.index, pl.name, <<>>)>> \o ChunkDeltas(pl.index, pl.chunks)
  ELSE <<Delta(pl.index, pl.name, Head(pl.chunks))>> \o ChunkDeltas(pl.index, Tail(pl.chunks))

\* All interleavings of two sequences.
RECURSIVE Merge(_, _)
Merge(a, b) ==
  IF a = <<>> THEN {b}
  ELSE IF b = <<>> THEN {a}
  ELSE {<<Head(a)>> \o m : m \in Merge(Tail(a), b)}
       \cup {<<Head(b)>> \o m : m \in Merge(a, Tail(b))}

DeltaFrames(ds) == [k \in 1..Len(ds) |-> PayloadFrame(Payload("", <<ds[k]>>))]

(***************************************************************************)
(* Program constants (src/config/constants.js) and the bounds of the chat   *)
(* runs: the number of accepted sendMessage calls of a run and the number  *)
(* of them in flight at the same time.                                     *)
(***************************************************************************)
MAX_INPUT_LENGTH == 4000

MAX_TOOL_CALLS_PER_MESSAGE == 5

MaxSends == 2

MaxInFlight == 2

Sends == 1..MaxSends

(***************************************************************************)
(* The text typed by the user: core is the text without the surrounding    *)
(* whitespace, lead and trail count the whitespace characters around it.   *)
(***************************************************************************)
InputText(lead, core, trail) == [lead |-> lead, core |-> core, trail |-> trail]

\* text.length
Length(text) == text.lead + Len(text.core) + text.trail

\* text.trim()
Trim(text) == text.core

\* !text || !text.trim()
IsBlank(text) == Trim(text) = <<>>

(***************************************************************************)
(* The messages store (useMessagesStore).  A message is a record; sid is   *)
(* the number of the sendMessage call that appended it (history, not read  *)
(* by the code).                                                           *)
(***************************************************************************)
Message(sid, role, content, toolName) ==
  [sid |-> sid, role |-> role, content |-> content, error |-> FALSE, toolName |-> toolName]

\* addMessage
AddMessage(msgs, m) == Append(msgs, m)

UpdateLastMessageFirst(msgs, content) ==
  IF msgs = <<>> THEN msgs ELSE [msgs EXCEPT ![1].content = content]

\* updateLastMessage({ content })
UpdateLastMessage(msgs, content) ==
  IF msgs = <<>> THEN msgs ELSE [msgs EXCEPT ![Len(msgs)].content = content]

\* updateLastMessage({ content, error: true })
UpdateLastMessageError(msgs, content) ==
  IF msgs = <<>> THEN msgs
  ELSE [msgs EXCEPT ![Len(msgs)].content = content, ![Len(msgs)].error = TRUE]

(***************************************************************************)
(* The runtime store (useRuntimeStore).                                    *)
(***************************************************************************)
NoError == <<>>

InitialRuntime ==
  [isStreaming |-> FALSE, isBusyTool |-> FALSE, pendingToolCall |-> "",
   lastError |-> NoError, errorCount |-> 0]

StartStreaming(rt) == [rt EXCEPT !.isStreaming = TRUE]

StopStreaming(rt) == [rt EXCEPT !.isStreaming = FALSE]

StartToolExecution(rt, toolCall) ==
  [rt EXCEPT !.isBusyTool = TRUE, !.pendingToolCall = toolCall]

CompleteToolExecution(rt) == [rt EXCEPT !.isBusyTool = FALSE, !.pendingToolCall = ""]

SetError(rt, error) == [rt EXCEPT !.lastError = error, !.errorCount = @ + 1]

(***************************************************************************)
(* toolValidators.validateToolCall.  The result is the validation error,   *)
(* <<>> when the call is valid.                                            *)
(***************************************************************************)
MaxExpressionLength == 100

\* Object.keys(args).length > 0
HasKeys(args) == args.kind = "object" /\ args.hasExpression

\* !args.expression || typeof args.expression !== 'string'
NoExpression(args) == ~(args.kind = "object" /\ args.hasExpression /\ args.expression # <<>>)

ValidateGetCurrentTime(args) ==
  IF HasKeys(args) THEN <<"get_current_time takes no arguments">> ELSE <<>>

\* (the forbidden patterns of the validator all need letters the expressions
\* of the model do not have)
ValidateCalculate(args) ==
  IF NoExpression(args) THEN <<"expression must be a string">>
  ELSE IF Len(args.expression) > MaxExpressionLength
       THEN <<"expression too long (max 100 characters)">>
  ELSE <<>>

\* The validators of save_note, read_note and open_ui on the argument
\* values of the model, which carry no title, content or component.
ValidateSaveNote(args) == <<"title must be a string">>

ValidateReadNote(args) == <<>>

ValidateOpenUi(args) == <<"component must be a string">>

HasValidator(toolName) ==
  toolName \in {"get_current_time", "calculate", "save_note", "read_note", "open_ui"}

\* validator(args): every validator reads a property of args or its keys,
\* which throws a TypeError when args is null.
ValidatorThrows(args) == args.kind = "null"

ValidatorError(toolName, args) ==
  CASE toolName = "get_current_time" -> ValidateGetCurrentTime(args)
    [] toolName = "calculate"        -> ValidateCalculate(args)
    [] toolName = "save_note"        -> ValidateSaveNote(args)
    [] toolName = "read_note"        -> ValidateReadNote(args)
    [] toolName = "open_ui"          -> ValidateOpenUi(args)

Outcome(raised, error) ==
  [returned |-> ~raised, raised |-> raised, valid |-> ~raised /\ error = <<>>, error |-> error]

\* the error thrown by the validator leaves validateToolCall
OnValidatorThrowEscapes(message) == Outcome(TRUE, message)

\* catch (error) { return { valid: false, error: ... } }
OnValidatorThrow(message) == Outcome(FALSE, <<"Validation error: ">> \o message)

\* validateToolCall(toolName, args): what it returns, or that it raised.
ValidateToolCallResult(toolName, args) ==
  IF ~HasValidator(toolName)
  THEN Outcome(FALSE, <<"No validator found for tool: ", toolName>>)
  ELSE IF ValidatorThrows(args)
  THEN OnValidatorThrow(<<"Cannot read properties of null">>)
  ELSE Outcome(FALSE, ValidatorError(toolName, args))

\* The error of the result, <<>> when it is {valid: true}.
ValidateToolCall(toolName, args) == ValidateToolCallResult(toolName, args).error

(***************************************************************************)
(* toolRegistry: getTool and the execute functions.  A tool result is      *)
(* [ok, error, json, formatted]: error is the message of the thrown error, *)
(* json the text of JSON.stringify(result), formatted result.formatted.    *)
(***************************************************************************)
HasTool(name) == name \in {"get_current_time", "calculate"}

\* expression.replace(/[^0-9+\-*/().\s]/g, '')
Sanitize(expression) == SelectSeq(expression, LAMBDA c : c \in Digits \cup {"+"})

\* The positions of the "+" signs of a sanitized expression.
PlusAt(e) == {i \in 1..Len(e) : e[i] = "+"}

\* Whether "return <e>" is a well-formed function body whose value is a
\* number: an optional sign, then numbers separated by single "+".
WellFormed(e) ==
  /\ e # <<>>
  /\ e[Len(e)] # "+"
  /\ \A i \in PlusAt(e) : i + 1 \notin PlusAt(e)

RECURSIVE Evaluate(_)
Evaluate(e) ==
  IF PlusAt(e) = {} THEN ParseInt(e)
  ELSE LET i == CHOOSE p \in PlusAt(e) : \A q \in PlusAt(e) : q <= p
       IN  Evaluate(SubSeq(e, 1, i - 1)) + ParseInt(SubSeq(e, i + 1, Len(e)))

ToolFailure(msg) == [ok |-> FALSE, error |-> msg, json |-> <<>>, formatted |-> <<>>]

\* new Function(`return ${sanitized}`)()
CalculateResult(sanitized) == Evaluate(sanitized)

\* calculate.execute(args)
ExecuteCalculate(args) ==
  IF args.kind # "object" \/ ~args.hasExpression
  THEN ToolFailure(<<"Cannot read properties of undefined (reading 'replace')">>)
  ELSE LET sanitized == Sanitize(args.expression)
       IN  IF sanitized = <<>>
           THEN ToolFailure(<<"Calculation failed: ", "Invalid calculation result">>)
           ELSE IF ~WellFormed(sanitized)
           THEN ToolFailure(<<"Calculation failed: ", "SyntaxError">>)
           ELSE LET result == ToString(CalculateResult(sanitized))
                IN  [ok        |-> TRUE,
                     error     |-> <<>>,
                     json      |-> <<"{expression:">> \o sanitized
                                   \o <<",result:", result, ",formatted:", "Result: ", result, "}">>,
                     formatted |-> <<"Result: ", result>>]

\* get_current_time.execute(): the clock's reading is one opaque unit
ExecuteGetCurrentTime ==
  [ok |-> TRUE, error |-> <<>>,
   json |-> <<"{currentTime:", "<iso time>", ",formatted:", "<local time>", "}">>,
   formatted |-> <<"<local time>">>]

\* tool.execute(args) of the tool registered under name
Execute(name, args) ==
  IF name = "calculate" THEN ExecuteCalculate(args) ELSE ExecuteGetCurrentTime

\* the natural language response built from a tool result
NaturalResponse(name, result) ==
  IF name = "calculate" THEN <<"The calculation result is: ">> \o result.formatted
  ELSE IF name = "get_current_time" THEN <<"The current time is: ">> \o result.formatted
  ELSE <<"I used the ", name, " tool and got: ">> \o result.json

(***************************************************************************)
(* useChat.sendMessage.  The world a call works on is the messages store,  *)
(* the runtime store and the log of the tool validations and executions    *)
(* (history).                                                              *)
(***************************************************************************)
World(msgs, rt, log) == [messages |-> msgs, runtime |-> rt, toolLog |-> log]

LogEntry(sid, op, id, name, args, ok) ==
  [sid |-> sid, op |-> op, id |-> id, name |-> name, args |-> args, ok |-> ok]

\* the error of a tool call is swallowed
ToolErrorSilent(w, log, msg) ==
  [w |-> World(w.messages, CompleteToolExecution(w.runtime), log), ok |-> FALSE, response |-> <<>>]

\* catch (toolError) { setError(...) } finally { completeToolExecution() }
ToolError(w, log, msg) ==
  [w  |-> World(w.messages,
                CompleteToolExecution(SetError(w.runtime, <<"Tool execution failed: ">> \o msg)),
                log),
   ok |-> FALSE, response |-> <<>>]

\* the result of the validation is logged and not acted on
RunToolUnchecked(w, sid, id, name, args) ==
  LET verr == ValidateToolCall(name, args)
      logV == Append(w.toolLog, LogEntry(sid, "validate", id, name, args, verr = <<>>))
  IN  IF ~HasTool(name) THEN ToolError(w, logV, <<"Tool '", name, "' not found">>)
      ELSE LET res  == Execute(name, args)
               logE == Append(logV, LogEntry(sid, "execute", id, name, args, res.ok))
           IN  IF ~res.ok THEN ToolError(w, logE, res.error)
               ELSE LET response == NaturalResponse(name, res)
                        added    == AddMessage(w.messages, Message(sid, "tool", res.json, name))
                    IN  [w  |-> World(UpdateLastMessage(added, response),
                                      CompleteToolExecution(StartToolExecution(w.runtime, name)),
                                      logE),
                         ok |-> TRUE, response |-> response]

\* The try/catch/finally around one tool call: validate, execute, append
\* the tool message, put the natural response in the last message.
RunTool(w, sid, id, name, args) ==
  LET verr == ValidateToolCall(name, args)
      logV == Append(w.toolLog, LogEntry(sid, "validate", id, name, args, verr = <<>>))
  IN  IF verr # <<>> THEN ToolError(w, logV, <<"Tool validation failed: ">> \o verr)
      ELSE IF ~HasTool(name) THEN ToolError(w, logV, <<"Tool '", name, "' not found">>)
      ELSE LET res  == Execute(name, args)
               logE == Append(logV, LogEntry(sid, "execute", id, name, args, res.ok))
           IN  IF ~res.ok THEN ToolError(w, logE, res.error)
               ELSE LET response == NaturalResponse(name, res)
                        added    == AddMessage(w.messages, Message(sid, "tool", res.json, name))
                    IN  [w  |-> World(UpdateLastMessage(added, response),
                                      CompleteToolExecution(StartToolExecution(w.runtime, name)),
                                      logE),
                         ok |-> TRUE, response |-> response]

\* One tool call up to "await tool.execute(toolCall.args)": validation,
\* startToolExecution, the lookup and the call of execute.
TryTool(w, sid, toolCall) ==
  LET verr == ValidateToolCall(toolCall.name, toolCall.args)
      logV == Append(w.toolLog, LogEntry(sid, "validate", toolCall.id, toolCall.name,
                                         toolCall.args, verr = <<>>))
  IN  IF verr # <<>> THEN ToolError(w, logV, <<"Tool validation failed: ">> \o verr)
      ELSE IF ~HasTool(toolCall.name)
      THEN ToolError(w, logV, <<"Tool '", toolCall.name, "' not found">>)
      ELSE [w  |-> World(w.messages, StartToolExecution(w.runtime, toolCall.name),
                         Append(logV, LogEntry(sid, "execute", toolCall.id, toolCall.name,
                                               toolCall.args,
                                               Execute(toolCall.name, toolCall.args).ok))),
            ok |-> TRUE, response |-> <<>>]

\* One tool call from the point its await resumes: the tool message, the
\* natural response, or the catch block, and the finally block.
AfterTool(w, sid, toolCall) ==
  LET res == Execute(toolCall.name, toolCall.args)
  IN  IF ~res.ok THEN ToolError(w, w.toolLog, res.error)
      ELSE LET response == NaturalResponse(toolCall.name, res)
               added    == AddMessage(w.messages, Message(sid, "tool", res.json, toolCall.name))
           IN  [w  |-> World(UpdateLastMessage(added, response),
                             CompleteToolExecution(w.runtime), w.toolLog),
                ok |-> TRUE, response |-> response]

\* the calls are collected at the front of the list
CollectToolCallFront(toolCalls, chunk) == <<chunk>> \o toolCalls

\* toolCalls.push(chunk)
CollectToolCall(toolCalls, chunk) == Append(toolCalls, chunk)

\* for (const toolCall of toolCalls) { ... break on error ... }
RECURSIVE ToolLoop(_, _, _, _)
ToolLoop(w, sid, toolCalls, finalContent) ==
  IF toolCalls = <<>> THEN [w |-> w, finalContent |-> finalContent]
  ELSE LET toolCall == Head(toolCalls)
           r        == RunTool(w, sid, toolCall.id, toolCall.name, toolCall.args)
       IN  IF r.ok THEN ToolLoop(r.w, sid, Tail(toolCalls), r.response)
           ELSE [w |-> r.w, finalContent |-> finalContent]

\* The body of "for await (const chunk of stream)" for the events yielded
\* by one read.  st is [messages, finalContent, toolCalls].
RECURSIVE Consume(_, _)
Consume(st, events) ==
  IF events = <<>> THEN st
  ELSE LET chunk == Head(events)
           next  == IF chunk.type = "text"
                    THEN LET fc == Append(st.finalContent, chunk.content)
                         IN  [st EXCEPT !.finalContent = fc,
                                        !.messages = UpdateLastMessage(st.messages, fc)]
                    ELSE [st EXCEPT !.toolCalls = CollectToolCall(st.toolCalls, chunk)]
       IN  Consume(next, Tail(events))

\* After the stream loop: the tool loop, the final content update and the
\* finally block.
Finish(w, sid, toolCalls, finalContent) ==
  LET r == ToolLoop(w, sid, toolCalls, finalContent)
  IN  World(UpdateLastMessage(r.w.messages, r.finalContent),
            StopStreaming(r.w.runtime),
            r.w.toolLog)

\* the catch block without the finally block
FailWithoutFinally(w, errorMessage, staleEmpty) ==
  World(IF staleEmpty THEN UpdateLastMessageError(w.messages, <<"Error: ">> \o errorMessage)
        ELSE w.messages,
        SetError(w.runtime,
                 IF errorMessage = <<>> THEN <<"Failed to send message">>
                 ELSE errorMessage),
        w.toolLog)

\* The outer catch and finally: errorMessage is the message after the
\* humanMessage extraction, staleEmpty the test on the messages captured by
\* the callback.
Fail(w, errorMessage, staleEmpty) ==
  World(IF staleEmpty THEN UpdateLastMessageError(w.messages, <<"Error: ">> \o errorMessage)
        ELSE w.messages,
        StopStreaming(SetError(w.runtime,
                               IF errorMessage = <<>> THEN <<"Failed to send message">>
                               ELSE errorMessage)),
        w.toolLog)

\* apiMessages: the messages captured by the callback that are neither
\* assistant nor tool messages, then the new user message
ApiMessages(msgs, userMessage) ==
  SelectSeq(msgs, LAMBDA m : m.role \notin {"assistant", "tool"}) \o <<userMessage>>

\* requestBody.messages of client.chat: the system instruction, then the
\* messages it was given (role and content of each)
RequestMessages(apiMessages) ==
  <<[role |-> "system", content |-> <<"systemPrompt">>]>>
    \o [k \in 1..Len(apiMessages) |->
          [role |-> apiMessages[k].role, content |-> apiMessages[k].content]]

\* messages.length > 0 && last.role === 'assistant' && !last.content
EmptyAssistantLast(msgs) ==
  msgs # <<>> /\ msgs[Len(msgs)].role = "assistant" /\ msgs[Len(msgs)].content = <<>>

\* The three preconditions; the result is the message of the thrown error,
\* "" when the call goes on.
CheckBlank(text) == IF IsBlank(text) THEN "Please enter a message" ELSE ""

\* the length is not checked
CheckLengthNever(text) == ""

CheckLength(text) ==
  IF Length(text) > MAX_INPUT_LENGTH THEN "Message too long" ELSE ""

CheckKey(key) == IF key = "" THEN "API key not configured" ELSE ""

CheckInput(text, key) ==
  IF CheckBlank(text) # "" THEN CheckBlank(text)
  ELSE IF CheckLength(text) # "" THEN CheckLength(text)
  ELSE CheckKey(key)

\* the arguments are always empty
DirectArgsEmpty(functionType, text) == ObjArgs(FALSE, <<>>)

\* functionType === 'calculate' ? { expression: text.trim() } : {}
DirectArgs(functionType, text) ==
  IF functionType = "calculate" THEN ObjArgs(TRUE, Trim(text)) ELSE ObjArgs(FALSE, <<>>)

(***************************************************************************)
(* handleOpenAIError and the humanMessage the catch of sendMessage         *)
(* extracts, for the ways client.chat can fail.                            *)
(***************************************************************************)
HttpMessage(status) ==
  IF status \in {401, 403} THEN "HTTP_ERROR_MESSAGES[401]"
  ELSE IF status = 404 THEN "HTTP_ERROR_MESSAGES[404]"
  ELSE IF status = 429 THEN "HTTP_ERROR_MESSAGES[429]"
  ELSE IF status \in {500, 502, 503, 504} THEN "HTTP_ERROR_MESSAGES[500]"
  ELSE "HTTP_ERROR_MESSAGES[UNKNOWN_ERROR]"

HttpFailure(status) == [kind |-> "http", status |-> status]

NetworkFailure == [kind |-> "network", status |-> 0]

NoBodyFailure == [kind |-> "nobody", status |-> 0]

HumanMessage(failure) ==
  CASE failure.kind = "http"    -> <<HttpMessage(failure.status)>>
    [] failure.kind = "network" -> <<"network: check the connection">>
    [] failure.kind = "nobody"  -> <<"HTTP_ERROR_MESSAGES[UNKNOWN_ERROR]">>

ChatFailures == {HttpFailure(401), NetworkFailure, NoBodyFailure}

(***************************************************************************)
(* The response bodies of the orchestrated runs.                           *)
(***************************************************************************)
TextBody == <<PayloadFrame(Payload("a", <<>>)), PayloadFrame(Payload("b", <<>>)), DoneFrame>>

OutOfOrderBody ==
  DeltaFrames(<<Delta(0, "calculate", <<"{", "E">>),
                Delta(1, "get_current_time", EmptyObjText),
                Delta(0, "", <<"2", "+", "2", "}">>)>>)

InvalidCallBody == <<PayloadFrame(Payload("", <<Delta(0, "calculate", EmptyObjText)>>))>>

ManyCallsBody ==
  <<PayloadFrame(Payload("", [i \in 1..(MAX_TOOL_CALLS_PER_MESSAGE + 1)
                                |-> Delta(i - 1, "get_current_time", EmptyObjText)]))>>

\* One line with text, a calculate call whose expression has no arithmetic
\* in it (it passes validation and makes execute throw), and a second call.
FailingCallBody ==
  <<PayloadFrame(Payload("a", <<Delta(0, "calculate", <<"{", "E", "x", "}">>),
                                Delta(1, "get_current_time", EmptyObjText)>>))>>

Bodies == {TextBody, OutOfOrderBody, InvalidCallBody, ManyCallsBody}

\* The streams of a server whose turns carry tool calls, one of which makes
\* execute throw.
ToolBodies == {FailingCallBody, OutOfOrderBody}

(***************************************************************************)
(* The inputs of sendMessage.                                              *)
(***************************************************************************)
TwoPlusTwo == <<"2", "+", "2">>

Texts ==
  { InputText(0, <<>>, 0), InputText(2, <<>>, 0),
    InputText(MAX_INPUT_LENGTH, <<"x">>, 0), InputText(MAX_INPUT_LENGTH - 1, <<"x">>, 0),
    InputText(0, <<"x">>, 0) }

SumTexts == {InputText(0, TwoPlusTwo, 0), InputText(1, TwoPlusTwo, 1)}

FunctionTypes == {"", "calculate", "get_current_time"}

Inputs ==
  {<<t, "">> : t \in Texts}
  \cup {<<InputText(0, <<"x">>, 0), f>> : f \in FunctionTypes \ {""}}
  \cup {<<t, "calculate">> : t \in SumTexts}

(***************************************************************************)
(* One sendMessage call.  pc is where the call stands: "idle" (not made),  *)
(* "chat" (awaiting client.chat), "stream" (in the for-await loop),        *)
(* "execute" (awaiting tool.execute of the first call of toolCalls),       *)
(* "done" (returned after the try block) or "caught" (returned after the   *)
(* catch block).  staleEmpty is the catch block's test on the messages *)
(* the callback captured; finalContent, toolCalls are the locals of the    *)
(* call; gen is the stream and source the lines of the response body not   *)
(* yet read.                                                               *)
(* request is the messages of the body posted by client.chat.              *)
(* History, not read by the code: requests (transport requests opened),    *)
(* cancelled (stopMessage ran while the call was consuming the stream),    *)
(* stoppedInTool (stopMessage ran while the call awaited tool.execute),     *)
(* overlapped (another call was in flight at some time during this one).   *)
(***************************************************************************)
IdleSend ==
  [pc |-> "idle", staleEmpty |-> FALSE, finalContent |-> <<>>, toolCalls |-> <<>>,
   gen |-> NewGen, source |-> <<>>, request |-> <<>>, requests |-> 0,
   cancelled |-> FALSE, stoppedInTool |-> FALSE, overlapped |-> FALSE]

\* What is kept of a settled call.
Settled(rec, pc) == [IdleSend EXCEPT !.pc = pc, !.requests = rec.requests]

\* lastCall is the sendMessage call on the stack: its arguments and the
\* message of the error it threw ("" when it went on); NoCall when the event
\* loop is idle.
NoCall == [made |-> FALSE, text |-> InputText(0, <<>>, 0), functionType |-> "", threw |-> ""]

Call(text, functionType, threw) ==
  [made |-> TRUE, text |-> text, functionType |-> functionType, threw |-> threw]

(***************************************************************************)
(* errors.js: the classification of failures.  An error is its name and    *)
(* its message, a sequence of text units; numbers in a message are runs of *)
(* digit units.                                                            *)
(***************************************************************************)
ERROR_CATEGORIES ==
  [AUTHENTICATION |-> {401, 403},
   NOT_FOUND      |-> {404},
   QUOTA_LIMIT    |-> {429},
   SERVER_ERROR   |-> {500, 502, 503, 504}]

RECURSIVE RenderInt(_)
\* A number as text.
RenderInt(n) ==
  IF n < 10 THEN <<DigitChars[n + 1]>>
  ELSE RenderInt(n \div 10) \o <<DigitChars[(n % 10) + 1]>>

\* handleHttpError(statusCode)
HandleHttpError(statusCode) ==
  [code         |-> RenderInt(statusCode),
   category     |-> IF statusCode \in ERROR_CATEGORIES.AUTHENTICATION THEN "AUTHENTICATION"
                    ELSE IF statusCode \in ERROR_CATEGORIES.NOT_FOUND THEN "NOT_FOUND"
                    ELSE IF statusCode \in ERROR_CATEGORIES.QUOTA_LIMIT THEN "QUOTA_LIMIT"
                    ELSE IF statusCode \in ERROR_CATEGORIES.SERVER_ERROR THEN "SERVER_ERROR"
                    ELSE "UNKNOWN",
   humanMessage |-> HttpMessage(statusCode)]

\* message.includes(word)
Includes(message, word) == \E i \in 1..Len(message) : message[i] = word

\* handleNetworkError(error)
HandleNetworkError(err) ==
  [code         |-> <<"NETWORK_ERROR">>,
   category     |-> IF err.name = "TypeError" /\ Includes(err.message, "fetch") THEN "NETWORK"
                    ELSE IF err.name = "AbortError" THEN "TIMEOUT"
                    ELSE "NETWORK",
   humanMessage |-> IF err.name = "TypeError" /\ Includes(err.message, "fetch")
                      THEN "network: check the connection"
                    ELSE IF err.name = "AbortError" THEN "request aborted: try again"
                    ELSE "HTTP_ERROR_MESSAGES[NETWORK_ERROR]"]

ApiErrorPrefix == "OpenAI API error: "

\* error.message.match(/OpenAI API error: (\d+)/): the digits of the first
\* match, <<>> when the message has none.
StatusMatch(message) ==
  LET at == {i \in 1..(Len(message) - 1) :
               message[i] = ApiErrorPrefix /\ message[i + 1] \in Digits}
  IN  IF at = {} THEN <<>>
      ELSE LET i    == CHOOSE k \in at : \A j \in at : k <= j
               stop == CHOOSE k \in (i + 1)..Len(message) :
                         /\ \A j \in (i + 1)..k : message[j] \in Digits
                         /\ k = Len(message) \/ message[k + 1] \notin Digits
           IN  SubSeq(message, i + 1, stop)

\* the network test is made before the status is looked for
HandleOpenAIErrorNetworkFirst(err) ==
  IF err.name = "TypeError" \/ Includes(err.message, "fetch") THEN HandleNetworkError(err)
  ELSE IF StatusMatch(err.message) # <<>> THEN HandleHttpError(ParseInt(StatusMatch(err.message)))
  ELSE [code |-> <<"UNKNOWN_ERROR">>, category |-> "UNKNOWN",
        humanMessage |-> "HTTP_ERROR_MESSAGES[UNKNOWN_ERROR]"]

\* handleOpenAIError(error)
HandleOpenAIError(err) ==
  IF StatusMatch(err.message) # <<>> THEN HandleHttpError(ParseInt(StatusMatch(err.message)))
  ELSE IF err.name = "TypeError" \/ Includes(err.message, "fetch") THEN HandleNetworkError(err)
  ELSE [code |-> <<"UNKNOWN_ERROR">>, category |-> "UNKNOWN",
        humanMessage |-> "HTTP_ERROR_MESSAGES[UNKNOWN_ERROR]"]

\* The message chat() builds for a response that is not ok:
\* `OpenAI API error: ${status} ${statusText} - ${errorData.error?.message || ''}`
ApiErrorMessage(status, statusText, detail) ==
  <<ApiErrorPrefix>> \o RenderInt(status) \o <<" ", statusText, " - ", detail>>

\* The errors handleOpenAIError is applied to.
StatusCodes == {200, 302} \cup 400..404 \cup 428..430 \cup 499..505

StatusTexts == {"", "Unauthorized"}

Details == {"", "fetch"}

ErrorNames == {"Error", "TypeError", "AbortError"}

ErrorMessages ==
  {ApiErrorMessage(st, text, detail) :
     st \in StatusCodes, text \in StatusTexts, detail \in Details}
    \cup {<<"Failed to ", "fetch">>, <<"No response body">>,
          <<"The user aborted a request.">>, <<ApiErrorPrefix, "undefined">>, <<>>}

ThrownErrors == [name : ErrorNames, message : ErrorMessages]

NoThrown == [name |-> "", message |-> <<>>]

NoResponse == [code |-> <<>>, category |-> "", humanMessage |-> ""]

(***************************************************************************)
(* settingsStore.js: the settings and their persistence.  temperature and  *)
(* topP are counted in tenths.  The persist middleware writes              *)
(* partialize(state) to localStorage after every set, and on creation of   *)
(* the store merges the stored object over the initial state.              *)
(***************************************************************************)
InitialSettings ==
  [apiKey               |-> "",
   apiEndpoint          |-> "https://api.openai.com/v1",
   model                |-> "gpt-4o-mini",
   systemPrompt         |-> "initial system prompt",
   temperature          |-> 7,
   maxTokens            |-> 1000,
   maxOutputTokens      |-> 1000,
   topP                 |-> 9,
   persistHistory       |-> TRUE,
   maxHistoryItems      |-> 100,
   theme                |-> "light",
   fontSize             |-> "medium",
   showTimestamps       |-> TRUE,
   enableTools          |-> TRUE,
   confirmToolExecution |-> TRUE]

\* The object resetToDefaults sets.
DefaultSettings == [InitialSettings EXCEPT !.systemPrompt = "default system prompt"]

\* Math.max(lo, Math.min(hi, x))
Clamp(lo, hi, x) == IF x < lo THEN lo ELSE IF x > hi THEN hi ELSE x

\* set(partial): the fields of the partial object replace those of the state.
Set(state, partial) ==
  [f \in DOMAIN state |-> IF f \in DOMAIN partial THEN partial[f] ELSE state[f]]

\* partialize(state)
Partialize(state) ==
  [f \in {"apiEndpoint", "model", "systemPrompt", "temperature", "maxTokens",
          "persistHistory", "maxHistoryItems", "theme", "fontSize",
          "showTimestamps", "enableTools", "confirmToolExecution"} |-> state[f]]

\* The state of a store created while localStorage holds stored.
Rehydrate(stored) == Set(InitialSettings, stored)

\* The partial objects updateSettings is given.
Updates ==
  {[topP |-> 5], [apiKey |-> "sk"], [theme |-> "dark", maxOutputTokens |-> 2000]}

\* getAllSettings() and exportSettings(): every setting, the API key
\* included, with the metadata fields.
ExportSettings(state) ==
  [f \in DOMAIN state \cup {"exportDate", "version"} |->
     IF f = "exportDate" THEN "<export date>"
     ELSE IF f = "version" THEN "1.0.0"
     ELSE state[f]]

\* const { exportDate, version, ...cleanSettings } = settings
WithoutMeta(obj) == [f \in DOMAIN obj \ {"exportDate", "version"} |-> obj[f]]

\* The exported texts importSettings is given.
Imports == {ExportSettings([InitialSettings EXCEPT !.apiKey = "sk", !.topP = 5])}

\* The argument of a validateToolCall call not made, and its outcome.
NoToolCall == [name |-> "", args |-> NoArgs]

NoOutcome == [returned |-> FALSE, raised |-> FALSE, valid |-> FALSE, error |-> <<>>]

\* The makeRequest calls and the startStream calls, in the order made.
Calls == 1..MaxCalls

\* A makeRequest call: state is "idle" (not made), "pending" (awaiting
\* requestFn) or "settled"; aborted is signal.aborted of the controller the
\* call created, timer whether the timeout it set is still to fire, result
\* how the call ended: "returned", or the message of the error it threw.
IdleRequest == [state |-> "idle", aborted |-> FALSE, timer |-> FALSE, result |-> ""]

\* A startStream call: state as above, aborted is signal.aborted, chunks
\* the number of chunks handed to the callbacks.
IdleStream == [state |-> "idle", aborted |-> FALSE, chunks |-> 0]

\* No call of the messages store has been made yet.
NoStoreCall == [op |-> "none"]

VARIABLES sFrames, sPlans, sSource, sGen, sMidCut,
          messages, runtime, apiKey, sends, toolLog, lastCall,
          thrown, errorResponse, settings, storage, restored,
          vCall, vResult,
          aController, aTimeout, aRequests,
          uController, uStreams,
          stCall

svars == <<sFrames, sPlans, sSource, sGen, sMidCut>>

ovars == <<messages, runtime, apiKey, sends, toolLog, lastCall>>

pvars == <<thrown, errorResponse, settings, storage, restored>>

hvars == <<vCall, vResult, aController, aTimeout, aRequests, uController, uStreams,
           stCall>>

vars == <<svars, ovars, pvars, hvars>>

\* No validation has been asked for and the hooks useAbortableRequest and
\* useStreaming are as mounted: no request and no stream has been started.
HookRest ==
  /\ vCall = NoToolCall
  /\ vResult = NoOutcome
  /\ aController = 0
  /\ aTimeout = 0
  /\ aRequests = [r \in Calls |-> IdleRequest]
  /\ uController = 0
  /\ uStreams = [r \in Calls |-> IdleStream]
  /\ stCall = NoStoreCall

\* No error has been handed to errors.js, and the settings store is as
\* created over an empty localStorage.
LibInit ==
  /\ thrown = NoThrown
  /\ errorResponse = NoResponse
  /\ settings = InitialSettings
  /\ storage = Partialize(InitialSettings)
  /\ restored = FALSE

\* No stream is being decoded on its own.
StreamRest ==
  /\ sFrames = <<>>
  /\ sPlans = <<>>
  /\ sSource = <<>>
  /\ sGen = NewGen
  /\ sMidCut = FALSE

\* The stores and the hook after construction.
ChatInit ==
  /\ messages = <<>>
  /\ runtime = InitialRuntime
  /\ apiKey = ""
  /\ sends = [s \in Sends |-> IdleSend]
  /\ toolLog = <<>>
  /\ lastCall = NoCall

StreamInit ==
  /\ ChatInit
  /\ HookRest
  /\ LibInit
  /\ sFrames \in SeqsUpTo(FrameAlphabet, MaxFrames)
  /\ sPlans = <<>>
  /\ sSource = Wire(sFrames)
  /\ sGen = NewGen
  /\ sMidCut = FALSE

\* const { done, value } = await reader.read() with a chunk of any size.
StreamRead ==
  /\ sGen.status = "reading"
  /\ \E n \in 1..Len(sSource) :
       /\ sGen' = ProcessChunk(sGen, SubSeq(sSource, 1, n))
       /\ sSource' = SubSeq(sSource, n + 1, Len(sSource))
       /\ sMidCut' = (sMidCut \/ sGen'.buffer # <<>> \/ sGen'.pending # <<>>)
  /\ UNCHANGED <<hvars, sFrames, sPlans, ovars, pvars>>

\* reader.read() resolves with done: true.
StreamEnd ==
  /\ sGen.status = "reading"
  /\ sSource = <<>>
  /\ sGen' = SourceDone(sGen)
  /\ UNCHANGED <<hvars, sFrames, sPlans, sSource, sMidCut, ovars, pvars>>

\* reader.read() rejects (connection lost).
StreamFail ==
  /\ sGen.status = "reading"
  /\ sGen' = SourceError(sGen)
  /\ UNCHANGED <<hvars, sFrames, sPlans, sSource, sMidCut, ovars, pvars>>

StreamNext == StreamRead \/ StreamEnd \/ StreamFail

SpecStream == StreamInit /\ [][StreamNext]_vars

(***************************************************************************)
(* The decoder on a body whose last line is not terminated: the server     *)
(* closes the stream after the last line without a final newline.          *)
(***************************************************************************)
TailInit ==
  /\ ChatInit
  /\ HookRest
  /\ LibInit
  /\ sFrames \in SeqsUpTo(FrameAlphabet, MaxFrames) \ {<<>>}
  /\ sPlans = <<>>
  /\ sSource = SubSeq(Wire(sFrames), 1, Len(Wire(sFrames)) - 1)
  /\ sGen = NewGen
  /\ sMidCut = FALSE

SpecTail == TailInit /\ [][StreamNext]_vars

(***************************************************************************)
(* The assembler run: the body carries the deltas of two tool calls, one   *)
(* delta per line, interleaved in any order, and is read one line at a     *)
(* time.                                                                   *)
(***************************************************************************)
AsmInit ==
  /\ ChatInit
  /\ HookRest
  /\ LibInit
  /\ \E p0 \in Plans(0), p1 \in Plans(1) :
       /\ sPlans = <<p0, p1>>
       /\ sFrames \in {DeltaFrames(m) : m \in Merge(PlanDeltas(p0), PlanDeltas(p1))}
  /\ sSource = Wire(sFrames)
  /\ sGen = NewGen
  /\ sMidCut = FALSE

\* reader.read() resolves with the next line of the body.
StreamReadLine ==
  /\ sGen.status = "reading"
  /\ sSource # <<>>
  /\ LET n == CHOOSE i \in 1..Len(sSource) :
                sSource[i] = NL /\ \A j \in 1..(i - 1) : sSource[j] # NL
     IN  /\ sGen' = ProcessChunk(sGen, SubSeq(sSource, 1, n))
         /\ sSource' = SubSeq(sSource, n + 1, Len(sSource))
  /\ UNCHANGED <<hvars, sFrames, sPlans, sMidCut, ovars, pvars>>

AsmNext == StreamReadLine \/ StreamEnd \/ StreamFail

SpecAssembler == AsmInit /\ [][AsmNext]_vars

(***************************************************************************)
(* Properties of the decoder and of the assembler.                         *)
(***************************************************************************)
IsPrefix(a, b) == Len(a) <= Len(b) /\ SubSeq(b, 1, Len(a)) = a

Ended == sGen.status \in {"completed", "returned"}

\* createStream run on the whole body delivered as a single chunk.
WholeRun(fs) ==
  LET g == ProcessChunk(NewGen, Wire(fs))
  IN  IF g.status = "reading" THEN SourceDone(g) ELSE g

\* C1: however the body is cut into chunks, the events yielded are those
\* yielded when the whole body arrives as one chunk (all of them once the
\* stream has ended, a prefix of them before).
C1_ChunkIndependence ==
  LET whole == WholeRun(sFrames).out
  IN  /\ IsPrefix(sGen.out, whole)
      /\ Ended => sGen.out = whole

\* A run that ended after some chunk stopped in the middle of a line and that
\* yielded a text and a tool call.
C1_Witness ==
  /\ sGen.status = "completed"
  /\ sMidCut
  /\ \E i, j \in 1..Len(sGen.out) :
       sGen.out[i].type = "text" /\ sGen.out[j].type = "tool_call"

\* The events of a body, from its payload objects: frames up to the sentinel,
\* the lines that carry no decodable payload left out.
RECURSIVE FramesRun(_, _)
FramesRun(g, fs) ==
  IF fs = <<>> \/ Head(fs).kind = "done" THEN g
  ELSE FramesRun(IF Head(fs).kind = "payload" THEN ApplyPayload(g, Head(fs).payload) ELSE g,
                 Tail(fs))

\* C3: a payload line that does not parse yields nothing and ends nothing:
\* the events of a stream that ended are those of its valid frames, in order.
C3_MalformedSkipped ==
  Ended => sGen.out = FramesRun(NewGen, sFrames).out

\* A run that ended and yielded an event from a line after a malformed one.
C3_Witness ==
  /\ sGen.status = "completed"
  /\ \E k \in 1..Len(sFrames) :
       /\ sFrames[k].kind = "junk"
       /\ \E e \in 1..Len(sGen.out) : sGen.outAt[e] > k

\* The delta carried by the n-th line of the assembler run.
DeltaAt(n) == sFrames[n].payload.tool_calls[1]

\* The argument chunks received for index i in the first n lines.
RECURSIVE OwnBuffer(_, _)
OwnBuffer(i, n) ==
  IF n = 0 THEN <<>>
  ELSE OwnBuffer(i, n - 1) \o (IF DeltaAt(n).index = i THEN DeltaAt(n).arguments ELSE <<>>)

ToolEvents(out, i) ==
  LET Mine(e) == e.type = "tool_call" /\ e.id = i
  IN  SelectSeq(out, Mine)

\* The events of one tool call streamed alone.
SoloRun(pl) == IngestDeltas(NewGen, PlanDeltas(pl)).out

\* C2: with the deltas of two tool calls interleaved in any order, each index
\* gets exactly one tool_call event, yielded at one of its own deltas, when
\* its own argument buffer parses, and equal to the event of that call
\* streamed alone.
C2_OnePerIndex ==
  /\ \A i \in {0, 1} : Len(ToolEvents(sGen.out, i)) <= 1
  /\ \A e \in 1..Len(sGen.out) :
       LET ev == sGen.out[e]
       IN  /\ ev.type = "tool_call"
           /\ ev.id \in {0, 1}
           /\ DeltaAt(sGen.outAt[e]).index = ev.id
           /\ ParseArgs(OwnBuffer(ev.id, sGen.outAt[e])).ok
           /\ SoloRun(sPlans[ev.id + 1]) = <<ev>>
  /\ sGen.status = "completed" =>
       /\ Len(sGen.out) = 2
       /\ \A i \in {0, 1} : Len(ToolEvents(sGen.out, i)) = 1

\* A run that ended in which index 1 completed first although index 0
\* started first and its deltas surround a delta of index 1.
C2_Witness ==
  /\ sGen.status = "completed"
  /\ Len(sGen.out) = 2
  /\ sGen.out[1].id = 1
  /\ DeltaAt(1).index = 0
  /\ DeltaAt(Len(sFrames)).index = 0

(***************************************************************************)
(* The orchestrated chat: the actions of the user (setApiKey, sendMessage, *)
(* stopMessage) and of the transport (the response to client.chat and the  *)
(* reads of the response body).                                            *)
(***************************************************************************)
InFlight(s) == sends[s].pc \in {"chat", "stream", "execute"}

Here == World(messages, runtime, toolLog)

\* No call is on the stack: the event loop can run the next handler.
AtRest == ~lastCall.made

Put(w) ==
  /\ messages' = w.messages
  /\ runtime' = w.runtime
  /\ toolLog' = w.toolLog

\* settingsStore.setApiKey: the user enters the key
SetApiKey ==
  /\ AtRest
  /\ apiKey = ""
  /\ apiKey' = "sk"
  /\ UNCHANGED <<hvars, svars, pvars, messages, runtime, sends, toolLog, lastCall>>

\* sendMessage(text, functionType) up to its first await on the transport;
\* with a functionType, up to its return.
SendMessage ==
  /\ AtRest
  /\ \E in \in Inputs :
    LET text         == in[1]
        functionType == in[2]
        err          == CheckInput(text, apiKey)
    IN  IF err # ""
        THEN /\ lastCall' = Call(text, functionType, err)
             /\ UNCHANGED <<hvars, svars, pvars, messages, runtime, apiKey, sends, toolLog>>
        ELSE \E s \in Sends :
               /\ sends[s].pc = "idle"
               /\ Cardinality({t \in Sends : InFlight(t)}) < MaxInFlight
               /\ \A t \in Sends : t < s => sends[t].pc # "idle"
               /\ LET busy   == \E t \in Sends : InFlight(t)
                      opened == AddMessage(AddMessage(messages, Message(s, "user", Trim(text), "")),
                                           Message(s, "assistant", <<>>, ""))
                      w1     == World(opened, StartStreaming(runtime), toolLog)
                      mark   == [t \in Sends |->
                                   IF InFlight(t) THEN [sends[t] EXCEPT !.overlapped = TRUE]
                                   ELSE sends[t]]
                  IN  IF functionType # ""
                      THEN LET r == RunTool(w1, s, 0, functionType, DirectArgs(functionType, text))
                           IN  /\ Put(World(r.w.messages, StopStreaming(r.w.runtime), r.w.toolLog))
                               /\ sends' = [mark EXCEPT ![s] = Settled(IdleSend, "done")]
                      ELSE /\ Put(w1)
                           /\ sends' = [mark EXCEPT ![s] =
                                          [IdleSend EXCEPT !.pc = "chat",
                                                           !.staleEmpty = EmptyAssistantLast(messages),
                                                           !.request =
                                                             RequestMessages(ApiMessages(messages,
                                                               Message(s, "user", Trim(text), ""))),
                                                           !.requests = 1,
                                                           !.overlapped = busy]]
               /\ lastCall' = Call(text, functionType, "")
               /\ UNCHANGED <<hvars, svars, pvars, apiKey>>

\* client.chat resolves with the stream, or rejects.
ChatRespond(s) ==
  /\ AtRest
  /\ sends[s].pc = "chat"
  /\ \/ /\ \E body \in Bodies :
             sends' = [sends EXCEPT ![s].pc = "stream", ![s].source = body]
        /\ UNCHANGED <<messages, runtime, toolLog>>
     \/ \E failure \in ChatFailures :
          /\ Put(Fail(Here, HumanMessage(failure), sends[s].staleEmpty))
          /\ sends' = [sends EXCEPT ![s] = Settled(sends[s], "caught")]
  /\ UNCHANGED <<hvars, svars, pvars, apiKey, lastCall>>

\* reader.read() resolves with the next line of the body; the loop body
\* runs for every event the line completes and, when the stream ends at the
\* sentinel, so does the rest of sendMessage.
StreamChunk(s) ==
  /\ AtRest
  /\ sends[s].pc = "stream"
  /\ sends[s].source # <<>>
  /\ LET rec    == sends[s]
         g      == ProcessChunk(rec.gen, Wire(<<Head(rec.source)>>))
         events == SubSeq(g.out, Len(rec.gen.out) + 1, Len(g.out))
         st     == Consume([messages |-> messages, finalContent |-> rec.finalContent,
                            toolCalls |-> rec.toolCalls], events)
     IN  IF g.status = "reading"
         THEN /\ sends' = [sends EXCEPT ![s].gen = g,
                                        ![s].source = Tail(rec.source),
                                        ![s].finalContent = st.finalContent,
                                        ![s].toolCalls = st.toolCalls]
              /\ messages' = st.messages
              /\ UNCHANGED <<runtime, toolLog>>
         ELSE /\ Put(Finish(World(st.messages, runtime, toolLog), s,
                            st.toolCalls, st.finalContent))
              /\ sends' = [sends EXCEPT ![s] = Settled(rec, "done")]
  /\ UNCHANGED <<hvars, svars, pvars, apiKey, lastCall>>

\* reader.read() resolves with done: the stream ends and the rest of
\* sendMessage runs.
StreamDone(s) ==
  /\ AtRest
  /\ sends[s].pc = "stream"
  /\ sends[s].source = <<>>
  /\ Put(Finish(Here, s, sends[s].toolCalls, sends[s].finalContent))
  /\ sends' = [sends EXCEPT ![s] = Settled(sends[s], "done")]
  /\ UNCHANGED <<hvars, svars, pvars, apiKey, lastCall>>

\* reader.read() rejects: the stream rethrows into the catch of sendMessage.
StreamError(s) ==
  /\ AtRest
  /\ sends[s].pc = "stream"
  /\ Put(Fail(Here, <<"network error">>, sends[s].staleEmpty))
  /\ sends' = [sends EXCEPT ![s] = Settled(sends[s], "caught")]
  /\ UNCHANGED <<hvars, svars, pvars, apiKey, lastCall>>

\* stopMessage()
StopMessage ==
  /\ AtRest
  /\ runtime.isStreaming
  /\ runtime' = StopStreaming(runtime)
  /\ sends' = [s \in Sends |->
                 IF sends[s].pc = "stream" THEN [sends[s] EXCEPT !.cancelled = TRUE]
                 ELSE IF sends[s].pc = "execute"
                 THEN [sends[s] EXCEPT !.stoppedInTool = TRUE]
                 ELSE sends[s]]
  /\ UNCHANGED <<hvars, svars, pvars, messages, apiKey, toolLog, lastCall>>

\* The call returns its promise (rejected when it threw) and the stack
\* unwinds.
Return ==
  /\ lastCall.made
  /\ lastCall' = NoCall
  /\ UNCHANGED <<hvars, svars, pvars, messages, runtime, apiKey, sends, toolLog>>

Init ==
  /\ ChatInit
  /\ HookRest
  /\ StreamRest
  /\ LibInit

Next ==
  \/ SetApiKey
  \/ SendMessage
  \/ \E s \in Sends : ChatRespond(s)
  \/ \E s \in Sends : StreamChunk(s)
  \/ \E s \in Sends : StreamDone(s)
  \/ \E s \in Sends : StreamError(s)
  \/ StopMessage
  \/ Return

Spec == Init /\ [][Next]_vars

(***************************************************************************)
(* The same hook against a server whose streams carry tool calls.          *)
(***************************************************************************)
ChatRespondTools(s) ==
  /\ AtRest
  /\ sends[s].pc = "chat"
  /\ \/ /\ \E body \in ToolBodies :
             sends' = [sends EXCEPT ![s].pc = "stream", ![s].source = body]
        /\ UNCHANGED <<messages, runtime, toolLog>>
     \/ \E failure \in ChatFailures :
          /\ Put(Fail(Here, HumanMessage(failure), sends[s].staleEmpty))
          /\ sends' = [sends EXCEPT ![s] = Settled(sends[s], "caught")]
  /\ UNCHANGED <<hvars, svars, pvars, apiKey, lastCall>>

NextTools ==
  \/ SetApiKey
  \/ SendMessage
  \/ \E s \in Sends : ChatRespondTools(s)
  \/ \E s \in Sends : StreamChunk(s)
  \/ \E s \in Sends : StreamDone(s)
  \/ \E s \in Sends : StreamError(s)
  \/ StopMessage
  \/ Return

SpecTools == Init /\ [][NextTools]_vars

(***************************************************************************)
(* The same hook with the tool loop at the grain of its await: a call      *)
(* suspends at "await tool.execute(...)" and other handlers run before it  *)
(* resumes.                                                                *)
(***************************************************************************)
\* The loop from the head of calls to its next await (waits), or to the
\* point it leaves the loop: a call failed before its await or none is left.
StartNext(w, s, calls) ==
  IF calls = <<>> THEN [w |-> w, waits |-> FALSE]
  ELSE LET r == TryTool(w, s, Head(calls))
       IN  [w |-> r.w, waits |-> r.ok]

\* What is left of call s after the loop reached n: the call awaits the
\* first of calls, or it ran the final update of the content and the
\* finally block.
Proceed(s, n, calls, finalContent) ==
  IF n.waits
  THEN /\ Put(n.w)
       /\ sends' = [sends EXCEPT ![s].pc = "execute", ![s].toolCalls = calls,
                                 ![s].finalContent = finalContent]
  ELSE /\ Put(World(UpdateLastMessage(n.w.messages, finalContent),
                    StopStreaming(n.w.runtime), n.w.toolLog))
       /\ sends' = [sends EXCEPT ![s] = Settled(sends[s], "done")]

\* reader.read() resolves with done: the stream ends and sendMessage runs
\* to the await of its first tool call, or to its end.
StreamEnds(s) ==
  /\ AtRest
  /\ sends[s].pc = "stream"
  /\ sends[s].source = <<>>
  /\ Proceed(s, StartNext(Here, s, sends[s].toolCalls),
             sends[s].toolCalls, sends[s].finalContent)
  /\ UNCHANGED <<hvars, svars, pvars, apiKey, lastCall>>

\* The promise of tool.execute settles: the call resumes, finishes the
\* tool call and runs to its next await, or to its end.
ToolSettles(s) ==
  /\ AtRest
  /\ sends[s].pc = "execute"
  /\ LET r    == AfterTool(Here, s, Head(sends[s].toolCalls))
         rest == Tail(sends[s].toolCalls)
         n    == IF r.ok THEN StartNext(r.w, s, rest) ELSE [w |-> r.w, waits |-> FALSE]
     IN  Proceed(s, n, rest, IF r.ok THEN r.response ELSE sends[s].finalContent)
  /\ UNCHANGED <<hvars, svars, pvars, apiKey, lastCall>>

NextCancel ==
  \/ SetApiKey
  \/ SendMessage
  \/ \E s \in Sends : ChatRespondTools(s)
  \/ \E s \in Sends : StreamChunk(s)
  \/ \E s \in Sends : StreamEnds(s)
  \/ \E s \in Sends : StreamError(s)
  \/ \E s \in Sends : ToolSettles(s)
  \/ StopMessage
  \/ Return

SpecCancel == Init /\ [][NextCancel]_vars

(***************************************************************************)
(* Properties of the orchestrated chat.                                    *)
(***************************************************************************)
\* The step is one of call s, made after the call was opened.
Moves(s) ==
  /\ InFlight(s)
  /\ (sends'[s].pc # sends[s].pc \/ sends'[s].source # sends[s].source)

\* The content of the assistant message call s appended.
AssistantContent(msgs, s) ==
  LET i == CHOOSE k \in 1..Len(msgs) : msgs[k].sid = s /\ msgs[k].role = "assistant"
  IN  msgs[i].content

\* The entries of a tool log for the op of call s, and the tool messages
\* of call s.
LogOf(log, s, op) == SelectSeq(log, LAMBDA e : e.sid = s /\ e.op = op)

ToolMessages(msgs, s) == SelectSeq(msgs, LAMBDA m : m.sid = s /\ m.role = "tool")

Ids(es) == [k \in 1..Len(es) |-> es[k].id]

Names(es) == [k \in 1..Len(es) |-> es[k].name]

ToolNames(ms) == [k \in 1..Len(ms) |-> ms[k].toolName]

\* C4: once stopMessage has run while call s was consuming the stream, no
\* later step of s changes the content of its assistant message, and none
\* validates or executes a tool.
C4_CancelStopsStream ==
  [][\A s \in Sends :
       (sends[s].cancelled /\ Moves(s))
         => /\ AssistantContent(messages', s) = AssistantContent(messages, s)
            /\ toolLog' = toolLog]_vars

\* C5: when sendMessage("2+2", 'calculate') has returned, the call was
\* validated, calculate was executed with {expression: "2+2"}, and the last
\* message of the log contains 4.
C5_CalculateTwoPlusTwo ==
  (/\ lastCall.made
   /\ lastCall.threw = ""
   /\ lastCall.functionType = "calculate"
   /\ lastCall.text = InputText(0, TwoPlusTwo, 0))
    => /\ Len(toolLog) >= 2
       /\ LET v == toolLog[Len(toolLog) - 1]
              e == toolLog[Len(toolLog)]
          IN  /\ v.op = "validate" /\ v.ok /\ v.name = "calculate"
              /\ e.op = "execute" /\ e.ok /\ e.name = "calculate"
              /\ e.args = ObjArgs(TRUE, TwoPlusTwo)
              /\ e.sid = v.sid
              /\ sends[e.sid].pc = "done"
       /\ messages # <<>>
       /\ "4" \in Range(messages[Len(messages)].content)

C5_Witness ==
  /\ lastCall.made
  /\ lastCall.threw = ""
  /\ lastCall.functionType = "calculate"
  /\ lastCall.text = InputText(0, TwoPlusTwo, 0)
  /\ messages[Len(messages)].content = <<"The calculation result is: ", "Result: ", "4">>

\* The tool_call events a stream has yielded.
Emitted(g) == SelectSeq(g.out, LAMBDA ev : ev.type = "tool_call")

\* The step in which call s, having read the stream to its end, runs the
\* rest of sendMessage and returns.
Completes(s) ==
  sends[s].pc = "stream" /\ sends[s].source = <<>> /\ sends'[s].pc = "done"

Succeeds(ev) ==
  ValidateToolCall(ev.name, ev.args) = <<>> /\ HasTool(ev.name) /\ Execute(ev.name, ev.args).ok

\* C6: the tools of a turn are executed in the order their calls were
\* completed by the stream (for indices 0 and 1 with 1 completed first: 1
\* then 0), and the tool messages are appended in that same order.
C6_FirstCompletedOrder ==
  [][\A s \in Sends :
       Completes(s)
         => LET emitted  == Emitted(sends[s].gen)
                newLog   == SubSeq(toolLog', Len(toolLog) + 1, Len(toolLog'))
                executed == SelectSeq(newLog, LAMBDA e : e.op = "execute")
                toolMsgs == SubSeq(messages', Len(messages) + 1, Len(messages'))
            IN  /\ \A k \in 1..Len(newLog) : newLog[k].sid = s
                /\ IsPrefix(Ids(executed), Ids(emitted))
                /\ ToolNames(toolMsgs)
                     = Names(SelectSeq(executed, LAMBDA e : e.ok))
                /\ \A k \in 1..Len(toolMsgs) : toolMsgs[k].role = "tool" /\ toolMsgs[k].sid = s
                /\ (\A k \in 1..Len(emitted) : Succeeds(emitted[k]))
                     => Ids(executed) = Ids(emitted) /\ Len(toolMsgs) = Len(emitted)]_vars

C6_Witness ==
  \E s \in Sends :
    /\ sends[s].pc = "done"
    /\ Ids(LogOf(toolLog, s, "execute")) = <<1, 0>>
    /\ ToolNames(ToolMessages(messages, s)) = <<"get_current_time", "calculate">>

C9_FailFast ==
  [][(/\ ~lastCall.made
      /\ lastCall'.made
      /\ \/ IsBlank(lastCall'.text)
         \/ Length(lastCall'.text) > MAX_INPUT_LENGTH
         \/ apiKey = "")
       => /\ lastCall'.threw # ""
          /\ UNCHANGED <<messages, runtime, sends, toolLog>>]_vars

C9_Witness ==
  /\ lastCall.made
  /\ lastCall.threw = "Message too long"
  /\ runtime.isStreaming
  /\ \E s \in Sends : sends[s].pc = "stream" /\ sends[s].finalContent # <<>>

\* C10: once a later sendMessage call has started, no step of an earlier
\* call still in flight changes the message log.
C10_Supersede ==
  [][\A s \in Sends :
       (Moves(s) /\ \E t \in Sends : t > s /\ sends[t].pc # "idle")
         => messages' = messages]_vars

\* The successful executions of call s, in the order they were made.
Executed(log, s) == SelectSeq(LogOf(log, s, "execute"), LAMBDA e : e.ok)

\* C11: each successful tool execution of a call leaves in the log a tool
\* message whose content is the JSON of the tool's result, and the natural
\* response of the execution is the content of the call's assistant message.
C11_ToolResultKept ==
  \A s \in Sends :
    LET es == Executed(toolLog, s)
        ms == ToolMessages(messages, s)
    IN  /\ Len(ms) = Len(es)
        /\ \A k \in 1..Len(es) :
             ms[k].content = Execute(es[k].name, es[k].args).json
        /\ es # <<>> =>
             AssistantContent(messages, s) =
               NaturalResponse(es[Len(es)].name,
                               Execute(es[Len(es)].name, es[Len(es)].args))

\* C12: a call that consumed a stream, ran every tool call of the turn with
\* success and returned has opened a second transport request.
C12_Continuation ==
  \A s \in Sends :
    (/\ sends[s].pc = "done"
     /\ sends[s].requests >= 1
     /\ Executed(toolLog, s) # <<>>
     /\ \A k \in 1..Len(toolLog) : toolLog[k].sid = s => toolLog[k].ok)
      => sends[s].requests >= 2

\* C13: once stopMessage has run while call s was consuming the stream, the
\* reader of s is released and is read no more, and the content of the
\* assistant message of s is the text accumulated so far (for a call that
\* ran alone).
C13_CancelClosesTransport ==
  \A s \in Sends :
    sends[s].cancelled
      => /\ sends[s].gen.released
         /\ sends[s].gen.status # "reading"
         /\ ~sends[s].overlapped
              => AssistantContent(messages, s) = sends[s].finalContent

(***************************************************************************)
(* The orchestrated chat with the progress the code itself guarantees: a   *)
(* call of sendMessage that threw on a precondition returns.  Nothing else *)
(* is fair: the user need not act, and the network need neither answer the *)
(* request nor deliver another chunk nor end the stream; sendMessage arms  *)
(* no timer that could act in their place.                                 *)
(***************************************************************************)
SpecLive == Spec /\ WF_vars(Return)

\* C14: a transport round cannot stay in streaming state forever: whenever
\* a call is waiting for the network with isStreaming set, isStreaming
\* eventually becomes false.
C14_TimeoutEndsStreaming ==
  (runtime.isStreaming /\ \E s \in Sends : InFlight(s)) ~> ~runtime.isStreaming

\* The assistant message call s appended.
AssistantMessage(msgs, s) ==
  msgs[CHOOSE k \in 1..Len(msgs) : msgs[k].sid = s /\ msgs[k].role = "assistant"]

\* Call s has failed: it ended in the catch block of sendMessage (the
\* request or the stream threw), or one of its tool calls failed validation
\* or execution.
Failed(s) ==
  \/ sends[s].pc = "caught"
  \/ /\ sends[s].pc = "done"
     /\ \E k \in 1..Len(toolLog) : toolLog[k].sid = s /\ ~toolLog[k].ok

\* C15: the assistant message of a call that has failed carries the error
\* flag and a cause as its content.
C15_FailureAnnotated ==
  \A s \in Sends :
    Failed(s) => /\ AssistantMessage(messages, s).error
                 /\ AssistantMessage(messages, s).content # <<>>

\* The step in which call s settles: sendMessage returns or ends in its
\* catch block.
Settles(s) ==
  /\ sends[s].pc \notin {"done", "caught"}
  /\ sends'[s].pc \in {"done", "caught"}

\* C16: whenever an accepted call of sendMessage settles, on any of its
\* exit paths, isStreaming and isBusyTool are false.
C16_NoDanglingStreaming ==
  [][\A s \in Sends :
       Settles(s) => /\ ~runtime'.isStreaming
                     /\ ~runtime'.isBusyTool]_vars

\* One call has ended in the catch block, which recorded its error, and
\* another has returned after a successful tool execution.
C16_Witness ==
  \E s, t \in Sends :
    /\ sends[s].pc = "caught"
    /\ sends[t].pc = "done"
    /\ Executed(toolLog, t) # <<>>
    /\ ~runtime.isStreaming
    /\ ~runtime.isBusyTool
    /\ runtime.lastError # NoError

(***************************************************************************)
(* handleOpenAIError applied to one thrown error.                          *)
(***************************************************************************)
ErrorsInit ==
  /\ ChatInit
  /\ HookRest
  /\ StreamRest
  /\ thrown \in ThrownErrors
  /\ errorResponse = NoResponse
  /\ settings = InitialSettings
  /\ storage = Partialize(InitialSettings)
  /\ restored = FALSE

HandleError ==
  /\ errorResponse = NoResponse
  /\ errorResponse' = HandleOpenAIError(thrown)
  /\ UNCHANGED <<hvars, svars, ovars, thrown, settings, storage, restored>>

ErrorsNext == HandleError

SpecErrors == ErrorsInit /\ [][ErrorsNext]_vars

(***************************************************************************)
(* The settings store over browser sessions.                               *)
(***************************************************************************)
\* set(partial) under the persist middleware: the state is updated and
\* partialize(state) is written to localStorage.
Write(partial) ==
  /\ settings' = Set(settings, partial)
  /\ storage' = Partialize(Set(settings, partial))

setApiKey ==
  \E key \in {"sk"} :
    /\ Write([apiKey |-> key])
    /\ UNCHANGED <<hvars, svars, ovars, thrown, errorResponse, restored>>

setApiEndpoint ==
  \E endpoint \in {"/api"} :
    /\ Write([apiEndpoint |-> endpoint])
    /\ UNCHANGED <<hvars, svars, ovars, thrown, errorResponse, restored>>

setModel ==
  \E model \in {"gpt-4o"} :
    /\ Write([model |-> model])
    /\ UNCHANGED <<hvars, svars, ovars, thrown, errorResponse, restored>>

setSystemPrompt ==
  \E prompt \in {"my prompt"} :
    /\ Write([systemPrompt |-> prompt])
    /\ UNCHANGED <<hvars, svars, ovars, thrown, errorResponse, restored>>

setTemperature ==
  \E temp \in {7, 25} :
    /\ Write([temperature |-> Clamp(0, 20, temp)])
    /\ UNCHANGED <<hvars, svars, ovars, thrown, errorResponse, restored>>

setMaxTokens ==
  \E tokens \in {1000, 5000} :
    /\ Write([maxTokens |-> Clamp(1, 4000, tokens)])
    /\ UNCHANGED <<hvars, svars, ovars, thrown, errorResponse, restored>>

setMaxOutputTokens ==
  \E tokens \in {1000, 0} :
    /\ Write([maxOutputTokens |-> Clamp(1, 4000, tokens)])
    /\ UNCHANGED <<hvars, svars, ovars, thrown, errorResponse, restored>>

setTopP ==
  \E topP \in {9, 5} :
    /\ Write([topP |-> Clamp(0, 10, topP)])
    /\ UNCHANGED <<hvars, svars, ovars, thrown, errorResponse, restored>>

togglePersistHistory ==
  /\ Write([persistHistory |-> ~settings.persistHistory])
  /\ UNCHANGED <<hvars, svars, ovars, thrown, errorResponse, restored>>

setMaxHistoryItems ==
  \E count \in {100, 5} :
    /\ Write([maxHistoryItems |-> Clamp(10, 1000, count)])
    /\ UNCHANGED <<hvars, svars, ovars, thrown, errorResponse, restored>>

setTheme ==
  \E theme \in {"dark"} :
    /\ Write([theme |-> theme])
    /\ UNCHANGED <<hvars, svars, ovars, thrown, errorResponse, restored>>

setFontSize ==
  \E size \in {"large"} :
    /\ Write([fontSize |-> size])
    /\ UNCHANGED <<hvars, svars, ovars, thrown, errorResponse, restored>>

toggleTimestamps ==
  /\ Write([showTimestamps |-> ~settings.showTimestamps])
  /\ UNCHANGED <<hvars, svars, ovars, thrown, errorResponse, restored>>

toggleTools ==
  /\ Write([enableTools |-> ~settings.enableTools])
  /\ UNCHANGED <<hvars, svars, ovars, thrown, errorResponse, restored>>

toggleToolConfirmation ==
  /\ Write([confirmToolExecution |-> ~settings.confirmToolExecution])
  /\ UNCHANGED <<hvars, svars, ovars, thrown, errorResponse, restored>>

resetToDefaults ==
  /\ Write(DefaultSettings)
  /\ UNCHANGED <<hvars, svars, ovars, thrown, errorResponse, restored>>

updateSettings ==
  \E updates \in Updates :
    /\ Write(updates)
    /\ UNCHANGED <<hvars, svars, ovars, thrown, errorResponse, restored>>

\* importSettings of an exported text: the metadata fields are removed and
\* the rest is set.
importSettings ==
  \E settingsData \in Imports :
    /\ Write(WithoutMeta(settingsData))
    /\ UNCHANGED <<hvars, svars, ovars, thrown, errorResponse, restored>>

\* The page is loaded again: the store is created anew from localStorage,
\* and the middleware writes the state back.  restored records that the
\* store of this session was created from what an earlier session wrote.
Reload ==
  /\ settings' = Rehydrate(storage)
  /\ storage' = Partialize(Rehydrate(storage))
  /\ restored' = TRUE
  /\ UNCHANGED <<hvars, svars, ovars, thrown, errorResponse>>

SettingsInit ==
  /\ ChatInit
  /\ HookRest
  /\ StreamRest
  /\ thrown = NoThrown
  /\ errorResponse = NoResponse
  /\ settings = InitialSettings
  /\ storage = Partialize(InitialSettings)
  /\ restored = FALSE

SettingsNext ==
  \/ setApiKey
  \/ setApiEndpoint
  \/ setModel
  \/ setSystemPrompt
  \/ setTemperature
  \/ setMaxTokens
  \/ setMaxOutputTokens
  \/ setTopP
  \/ togglePersistHistory
  \/ setMaxHistoryItems
  \/ setTheme
  \/ setFontSize
  \/ toggleTimestamps
  \/ toggleTools
  \/ toggleToolConfirmation
  \/ resetToDefaults
  \/ updateSettings
  \/ importSettings
  \/ Reload

SpecSettings == SettingsInit /\ [][SettingsNext]_vars

(***************************************************************************)
(* validateToolCall on its own: a tool name and an argument value, as      *)
(* JSON.parse can return one, are validated once.                          *)
(***************************************************************************)
ValidatedNames ==
  {"get_current_time", "calculate", "save_note", "read_note", "open_ui", "unknown_tool"}

ArgValues ==
  {NullArgs, NumArgs(0), NumArgs(12), ObjArgs(FALSE, <<>>), ObjArgs(TRUE, <<>>),
   ObjArgs(TRUE, <<"2">>), ObjArgs(TRUE, TwoPlusTwo), ObjArgs(TRUE, <<"x">>),
   ObjArgs(TRUE, [i \in 1..(MaxExpressionLength + 1) |-> "1"])}

ValidateInit ==
  /\ ChatInit
  /\ StreamRest
  /\ LibInit
  /\ vCall \in [name : ValidatedNames, args : ArgValues]
  /\ vResult = NoOutcome
  /\ aController = 0
  /\ aTimeout = 0
  /\ aRequests = [r \in Calls |-> IdleRequest]
  /\ uController = 0
  /\ uStreams = [r \in Calls |-> IdleStream]
  /\ stCall = NoStoreCall

\* toolValidators.validateToolCall(vCall.name, vCall.args)
Validate ==
  /\ vResult = NoOutcome
  /\ vResult' = ValidateToolCallResult(vCall.name, vCall.args)
  /\ UNCHANGED <<svars, ovars, pvars, stCall, vCall, aController, aTimeout, aRequests,
                 uController, uStreams>>

ValidateNext == Validate

SpecValidate == ValidateInit /\ [][ValidateNext]_vars

\* The classification by status, as a table.
CategoryOfStatus(status) ==
  CASE status \in {401, 403}           -> "AUTHENTICATION"
    [] status = 404                    -> "NOT_FOUND"
    [] status = 429                    -> "QUOTA_LIMIT"
    [] status \in {500, 502, 503, 504} -> "SERVER_ERROR"
    [] OTHER                           -> "UNKNOWN"

\* The message is one chat() builds for a response with this status.
CarriesStatus(message, status) ==
  \E text \in StatusTexts, detail \in Details :
    message = ApiErrorMessage(status, text, detail)

\* C17: handleHttpError classifies a status by the table alone; for an
\* error whose message carries 'OpenAI API error: <status>',
\* handleOpenAIError returns the category of that status, whatever the
\* name of the error and the rest of its message; an error with no status
\* is classified NETWORK or TIMEOUT only if it is a TypeError or its
\* message mentions fetch.
C17_Classification ==
  errorResponse # NoResponse =>
    /\ \A status \in StatusCodes :
         /\ HandleHttpError(status).category = CategoryOfStatus(status)
         /\ CarriesStatus(thrown.message, status)
              => errorResponse.category = CategoryOfStatus(status)
    /\ (/\ \A status \in StatusCodes : ~CarriesStatus(thrown.message, status)
        /\ errorResponse.category \in {"NETWORK", "TIMEOUT"})
         => (thrown.name = "TypeError" \/ Includes(thrown.message, "fetch"))

\* A TypeError whose message carries status 401 and mentions fetch was
\* classified as an authentication failure.
C17_Witness ==
  /\ thrown.name = "TypeError"
  /\ thrown.message = ApiErrorMessage(401, "Unauthorized", "fetch")
  /\ errorResponse.category = "AUTHENTICATION"

\* C19: what the settings store has written to localStorage restores every
\* setting but the API key when the store is created from it, and the API
\* key is not part of what is written.
C19_SettingsRoundTrip ==
  /\ "apiKey" \notin DOMAIN storage
  /\ \A f \in DOMAIN settings \ {"apiKey"} : Rehydrate(storage)[f] = settings[f]

\* C18: on every exit path of createStream (the source ended, the sentinel
\* was seen, a read failed) the reader is released and the connection of
\* the response is closed.
C18_ReaderScoped ==
  sGen.status # "reading" => sGen.released /\ sGen.closed

\* C20: a stream yields at most one tool_call event for an index, whatever
\* the deltas that follow the one that completed the call carry.
C20_RetiredIndex ==
  \A e1, e2 \in 1..Len(sGen.out) :
    (/\ sGen.out[e1].type = "tool_call"
     /\ sGen.out[e2].type = "tool_call"
     /\ sGen.out[e1].id = sGen.out[e2].id)
      => e1 = e2

\* The contents of the text events a stream has yielded, in order.
TextContents(out) ==
  LET ts == SelectSeq(out, LAMBDA ev : ev.type = "text")
  IN  [k \in 1..Len(ts) |-> ts[k].content]

\* C21: while call s consumes its stream, the content of its assistant
\* message is the concatenation, in arrival order, of the contents of the
\* text events yielded so far (empty before the first).
C21_TextInOrder ==
  \A s \in Sends :
    sends[s].pc = "stream"
      => AssistantContent(messages, s) = TextContents(sends[s].gen.out)

\* Tool call k of the emitted calls es is the first that fails validation,
\* the calls before it having succeeded.
FirstInvalid(es, k) ==
  /\ k \in 1..Len(es)
  /\ ValidateToolCall(es[k].name, es[k].args) # <<>>
  /\ \A j \in 1..(k - 1) : Succeeds(es[j])

\* C22: when the stream of a call has ended and tool call k of the turn is
\* the first to fail validation, the calls after k are neither validated
\* nor executed, the k - 1 tool messages of the calls before it are in the
\* log, and the assistant message of the call holds the text accumulated
\* from the stream and carries the error flag.
C22_ValidationAborts ==
  [][\A s \in Sends : \A k \in 1..Len(Emitted(sends[s].gen)) :
       (Completes(s) /\ FirstInvalid(Emitted(sends[s].gen), k))
         => /\ Len(LogOf(toolLog', s, "validate")) = k
            /\ Len(LogOf(toolLog', s, "execute")) = k - 1
            /\ Len(ToolMessages(messages', s)) = k - 1
            /\ AssistantMessage(messages', s).content = sends[s].finalContent
            /\ AssistantMessage(messages', s).error]_vars

\* Tool call k of the emitted calls es is the first whose execution fails,
\* the calls before it having succeeded.
FirstFailing(es, k) ==
  /\ k \in 1..Len(es)
  /\ ValidateToolCall(es[k].name, es[k].args) = <<>>
  /\ ~(HasTool(es[k].name) /\ Execute(es[k].name, es[k].args).ok)
  /\ \A j \in 1..(k - 1) : Succeeds(es[j])

\* C23: when the stream of a call has ended and tool call k of the turn is
\* the first whose execution fails, the calls after k are neither validated
\* nor executed, an error is recorded with setError, and the content of the
\* assistant message of the call is the text accumulated from the stream.
C23_ExecutionFailureAborts ==
  [][\A s \in Sends : \A k \in 1..Len(Emitted(sends[s].gen)) :
       (Completes(s) /\ FirstFailing(Emitted(sends[s].gen), k))
         => /\ Len(LogOf(toolLog', s, "validate")) = k
            /\ Len(LogOf(toolLog', s, "execute")) <= k
            /\ Len(ToolMessages(messages', s)) = k - 1
            /\ runtime'.errorCount = runtime.errorCount + 1
            /\ runtime'.lastError # NoError
            /\ AssistantContent(messages', s) = TextContents(sends[s].gen.out)]_vars

\* C24: every execution of a tool, on the streamed path and on the direct
\* path, comes right after a validation of the same call, with the same
\* name and arguments, that returned valid; the name has a validator.
C24_ExecuteOnlyValidated ==
  \A k \in 1..Len(toolLog) :
    toolLog[k].op = "execute"
      => /\ k > 1
         /\ toolLog[k - 1] = [toolLog[k] EXCEPT !.op = "validate", !.ok = TRUE]
         /\ HasValidator(toolLog[k].name)
         /\ ValidateToolCall(toolLog[k].name, toolLog[k].args) = <<>>

\* A call whose tool call failed validation has returned without an
\* execution, and a tool has been executed for another call.
C24_Witness ==
  /\ \E k \in 1..Len(toolLog) :
       /\ toolLog[k].op = "validate" /\ ~toolLog[k].ok
       /\ sends[toolLog[k].sid].pc = "done"
       /\ LogOf(toolLog, toolLog[k].sid, "execute") = <<>>
  /\ \E k \in 1..Len(toolLog) : toolLog[k].op = "execute"

\* C25: after every step each tool message holds the content it was
\* appended with, the JSON of the result of an execution of its tool for
\* its call, and no step changes the content of a user message.
C25_OnlyAssistantMutated ==
  [][/\ \A i \in 1..Len(messages') :
          messages'[i].role = "tool"
            => \E k \in 1..Len(toolLog') :
                 /\ toolLog'[k].op = "execute" /\ toolLog'[k].ok
                 /\ toolLog'[k].sid = messages'[i].sid
                 /\ toolLog'[k].name = messages'[i].toolName
                 /\ messages'[i].content = Execute(toolLog'[k].name, toolLog'[k].args).json
     /\ \A i \in 1..Len(messages) :
          messages[i].role = "user" => messages'[i].content = messages[i].content]_vars

\* C26: when reading the stream fails after text has arrived, the
\* assistant message of the call holds that text once the call has
\* settled.
C26_PartialTextRetained ==
  [][\A s \in Sends :
       (sends[s].pc = "stream" /\ sends'[s].pc = "caught" /\ sends[s].finalContent # <<>>)
         => AssistantContent(messages', s) = sends[s].finalContent]_vars

\* C27: when a call ends in the catch block, whether the request failed
\* (HTTP status, network, no body) or reading the stream failed, the error
\* recorded by setError is the message of an error category, and so is the
\* text after "Error: " of a message the catch block rewrote.
C27_OnlyMappedMessages ==
  [][\A s \in Sends :
       (sends[s].pc \in {"chat", "stream"} /\ sends'[s].pc = "caught")
         => LET mapped == {HumanMessage(f) :
                             f \in ChatFailures \cup {HttpFailure(st) : st \in {403, 404, 429, 500, 418}}}
            IN  /\ runtime'.lastError \in mapped
                /\ \A i \in 1..Len(messages') :
                     messages'[i] # messages[i]
                       => \E m \in mapped : messages'[i].content = <<"Error: ">> \o m]_vars

C29_SentinelEndsStream ==
  \A k \in 1..Len(sFrames) :
    sFrames[k].kind = "done"
      => /\ sGen.lineNo <= k
         /\ \A e \in 1..Len(sGen.out) : sGen.outAt[e] < k
         /\ sGen.lineNo = k => (sGen.status = "returned" /\ sGen.released)

\* A run that returned at the sentinel line although the line after it, a
\* payload line that yields an event when decoded, had arrived whole in the
\* chunk that carried the sentinel.
C29_Witness ==
  /\ sGen.status = "returned"
  /\ sSource = <<>>
  /\ \E k \in 1..(Len(sFrames) - 1) :
       /\ sFrames[k].kind = "done"
       /\ sFrames[k + 1].kind = "payload"
       /\ ApplyPayload(NewGen, sFrames[k + 1].payload).out # <<>>
       /\ sGen.lineNo = k

\* The deltas carried by the first n lines of the body, in arrival order.
RECURSIVE DeltasUpTo(_)
DeltasUpTo(n) ==
  IF n = 0 THEN <<>>
  ELSE DeltasUpTo(n - 1)
         \o (IF sFrames[n].kind = "payload" /\ sFrames[n].payload.choice
             THEN sFrames[n].payload.tool_calls ELSE <<>>)

\* The concatenation of the argument chunks of the deltas for index i.
RECURSIVE AllChunks(_, _)
AllChunks(ds, i) ==
  IF ds = <<>> THEN <<>>
  ELSE (IF Head(ds).index = i THEN Head(ds).arguments ELSE <<>>) \o AllChunks(Tail(ds), i)

\* The name carried by the last delta for index i that carries one.
RECURSIVE LastName(_, _)
LastName(ds, i) ==
  IF ds = <<>> THEN ""
  ELSE IF ds[Len(ds)].index = i /\ ds[Len(ds)].name # "" THEN ds[Len(ds)].name
  ELSE LastName(SubSeq(ds, 1, Len(ds) - 1), i)

\* C30: the name of an emitted tool_call is the one carried by the last
\* delta for its index that carries a name, and its args are the parse of
\* the concatenation, in arrival order, of all the argument chunks received
\* for its index up to the line that completed it.
C30_AppendOnlyArgs ==
  \A e \in 1..Len(sGen.out) :
    sGen.out[e].type = "tool_call"
      => LET ds  == DeltasUpTo(sGen.outAt[e])
             all == ParseArgs(AllChunks(ds, sGen.out[e].id))
         IN  /\ sGen.out[e].name = LastName(ds, sGen.out[e].id)
             /\ all.ok
             /\ sGen.out[e].args = all.value

\* The events yielded while line k of the body was processed, in order.
EventsAt(k) ==
  LET idx == SelectSeq([e \in 1..Len(sGen.out) |-> e], LAMBDA e : sGen.outAt[e] = k)
  IN  [j \in 1..Len(idx) |-> sGen.out[idx[j]]]

\* C31: for every line processed, the events it yielded are decided by the
\* fields of its decoded payload: a line that is no payload line, that does
\* not decode, or whose payload has neither text nor tool-call fragments
\* yields nothing; a payload with text yields exactly one text event, with
\* that text, before any tool_call event; a payload without text yields no
\* text event.
C31_PayloadDecidesEvents ==
  \A k \in 1..sGen.lineNo :
    LET f  == sFrames[k]
        p  == f.payload
        es == EventsAt(k)
    IN  /\ (f.kind # "payload" \/ ~p.choice \/ (p.content = "" /\ p.tool_calls = <<>>))
             => es = <<>>
        /\ (f.kind = "payload" /\ p.choice /\ p.content # "")
             => /\ es # <<>>
                /\ es[1] = TextEvent(p.content)
                /\ \A j \in 2..Len(es) : es[j].type = "tool_call"
        /\ (f.kind = "payload" /\ p.choice /\ p.content = "")
             => \A j \in 1..Len(es) : es[j].type = "tool_call"

\* A run in which a payload without choices yielded nothing and a payload
\* with text and tool-call fragments yielded its text and then a tool call.
C31_Witness ==
  /\ sGen.lineNo = 2
  /\ \E k, m \in 1..2 :
       /\ sFrames[k] = PayloadFrame(NoChoicePayload)
       /\ sFrames[m].kind = "payload"
       /\ sFrames[m].payload.content # ""
       /\ sFrames[m].payload.tool_calls # <<>>
       /\ Len(EventsAt(m)) = 2
       /\ EventsAt(m)[2].type = "tool_call"

\* C32: the request a sendMessage call opens carries the system
\* instruction, then every turn of the log as it stood when the call was
\* made (user, assistant and tool turns, in log order), then the new user
\* turn.
C32_RequestCarriesPriorTurns ==
  [][\A s \in Sends :
       (sends[s].pc = "idle" /\ sends'[s].pc = "chat")
         => sends'[s].request =
              <<[role |-> "system", content |-> <<"systemPrompt">>]>>
                \o [k \in 1..Len(messages) |->
                      [role |-> messages[k].role, content |-> messages[k].content]]
                \o <<[role |-> "user", content |-> Trim(lastCall'.text)]>>]_vars

\* C33: a call of validateToolCall returns, for every tool name and every
\* argument value, and never raises: what it returns is {valid: true} or
\* {valid: false, error} with an error text; for a name without validator
\* and for a validator that throws it is {valid: false, error}.
C33_ValidateTotal ==
  vResult # NoOutcome
    => /\ vResult.returned /\ ~vResult.raised
       /\ vResult.valid <=> vResult.error = <<>>
       /\ (~HasValidator(vCall.name) \/ vCall.args.kind = "null")
            => (~vResult.valid /\ vResult.error # <<>>)

\* A validation of null arguments by a registered validator has returned,
\* with an error.
C33_Witness ==
  /\ vResult.returned
  /\ vCall.name = "calculate"
  /\ vCall.args = NullArgs
  /\ ~vResult.valid
  /\ vResult.error # <<>>

(***************************************************************************)
(* useAbortableRequest: the refs abortControllerRef (aController) and      *)
(* timeoutRef (aTimeout) hold the number of the makeRequest call whose     *)
(* controller and timer they point at, 0 for null.  A timer that fired or  *)
(* was cleared stays in timeoutRef until the ref is assigned.              *)
(***************************************************************************)
\* abortControllerRef.current.abort() when the ref is set
AbortCurrent(reqs, controller) ==
  [r \in Calls |-> IF r = controller THEN [reqs[r] EXCEPT !.aborted = TRUE] ELSE reqs[r]]

\* clearTimeout(timeoutRef.current) when the ref is set
ClearCurrent(reqs, timeout) ==
  [r \in Calls |-> IF r = timeout THEN [reqs[r] EXCEPT !.timer = FALSE] ELSE reqs[r]]

\* isRequestActive()
IsRequestActive == aController # 0

\* makeRequest(requestFn, options) up to "await requestFn(signal, ...)"
MakeRequest ==
  \E r \in Calls :
    /\ aRequests[r].state = "idle"
    /\ \A q \in Calls : q < r => aRequests[q].state # "idle"
    /\ aRequests' = [ClearCurrent(AbortCurrent(aRequests, aController), aTimeout)
                       EXCEPT ![r] = [IdleRequest EXCEPT !.state = "pending", !.timer = TRUE]]
    /\ aController' = r
    /\ aTimeout' = r
    /\ UNCHANGED <<svars, ovars, pvars, stCall, vCall, vResult, uController, uStreams>>

\* catch (error) { if (error.name === 'AbortError') throw new Error(...) }
RequestResult(outcome) ==
  CASE outcome = "resolved"   -> "returned"
    [] outcome = "AbortError" -> "Request was aborted"
    [] outcome = "error"      -> "error"

\* requestFn settles: it resolves, it rejects with an AbortError (its
\* signal was aborted) or with another error; the catch and the finally
\* block run.
RequestSettles(r) ==
  /\ aRequests[r].state = "pending"
  /\ \E outcome \in {"resolved", "error"}
                      \cup (IF aRequests[r].aborted THEN {"AbortError"} ELSE {}) :
       aRequests' = [ClearCurrent(aRequests, aTimeout)
                       EXCEPT ![r].state = "settled", ![r].result = RequestResult(outcome)]
  /\ aTimeout' = 0
  /\ aController' = 0
  /\ UNCHANGED <<svars, ovars, pvars, stCall, vCall, vResult, uController, uStreams>>

\* The timeout set by call t elapses: its callback aborts the controller
\* the ref holds at that time.
TimerFires(t) ==
  /\ aRequests[t].timer
  /\ aRequests' = [AbortCurrent(aRequests, aController) EXCEPT ![t].timer = FALSE]
  /\ UNCHANGED <<svars, ovars, pvars, stCall, vCall, vResult, aController, aTimeout,
                 uController, uStreams>>

\* abortRequest()
AbortRequest ==
  /\ aRequests' = ClearCurrent(AbortCurrent(aRequests, aController), aTimeout)
  /\ aController' = 0
  /\ aTimeout' = 0
  /\ UNCHANGED <<svars, ovars, pvars, stCall, vCall, vResult, uController, uStreams>>

AbortableNext ==
  \/ MakeRequest
  \/ \E r \in Calls : RequestSettles(r)
  \/ \E t \in Calls : TimerFires(t)
  \/ AbortRequest

SpecAbortable == Init /\ [][AbortableNext]_vars

\* C34: at any time at most one request that is in flight has a signal
\* that is not aborted.
C34_OneLiveRequest ==
  Cardinality({r \in Calls : aRequests[r].state = "pending" /\ ~aRequests[r].aborted}) <= 1

\* The request started last, when it is in flight and its signal is not
\* aborted; 0 when there is none.
Latest ==
  LET started == {r \in Calls : aRequests[r].state # "idle"}
  IN  IF started = {} THEN 0
      ELSE LET m == CHOOSE r \in started : \A q \in started : q <= r
           IN  IF aRequests[m].state = "pending" /\ ~aRequests[m].aborted THEN m ELSE 0

\* C35: while the request started last is in flight and its signal is not
\* aborted, its timer is armed, isRequestActive() is true and the
\* controller abortRequest() would abort is its own.
C35_LatestUnderControl ==
  Latest # 0
    => /\ aRequests[Latest].timer
       /\ IsRequestActive
       /\ aController = Latest

(***************************************************************************)
(* useStreaming: uController is abortControllerRef, the number of the      *)
(* startStream call whose controller it holds, 0 for null.  A call is      *)
(* "fetching" (awaiting fetch), "reading" (awaiting reader.read()) or      *)
(* "settled".                                                              *)
(***************************************************************************)
\* abortControllerRef.current.abort() when the ref is set
AbortStream(streams, controller) ==
  [r \in Calls |-> IF r = controller THEN [streams[r] EXCEPT !.aborted = TRUE] ELSE streams[r]]

\* startStream(content, callbacks) up to "await fetch(...)"
StartStream ==
  \E r \in Calls :
    /\ uStreams[r].state = "idle"
    /\ \A q \in Calls : q < r => uStreams[q].state # "idle"
    /\ uStreams' = [AbortStream(uStreams, uController)
                      EXCEPT ![r] = [IdleStream EXCEPT !.state = "fetching"]]
    /\ uController' = r
    /\ UNCHANGED <<svars, ovars, pvars, stCall, vCall, vResult, aController, aTimeout, aRequests>>

\* fetch settles: with a response that is ok, and the call goes on to read
\* it; or with a response that is not ok, a network error or, when the
\* signal was aborted, an AbortError, and the catch and finally blocks run.
FetchSettles(r) ==
  /\ uStreams[r].state = "fetching"
  /\ \/ /\ uStreams' = [uStreams EXCEPT ![r].state = "reading"]
        /\ UNCHANGED uController
     \/ /\ uStreams' = [uStreams EXCEPT ![r].state = "settled"]
        /\ uController' = 0
  /\ UNCHANGED <<svars, ovars, pvars, stCall, vCall, vResult, aController, aTimeout, aRequests>>

\* reader.read() resolves with a chunk: the loop breaks when the signal is
\* aborted (onComplete, then finally), else the chunk goes to the callbacks.
ReadChunk(r) ==
  /\ uStreams[r].state = "reading"
  /\ uStreams[r].chunks < MaxChunks
  /\ IF uStreams[r].aborted
     THEN /\ uStreams' = [uStreams EXCEPT ![r].state = "settled"]
          /\ uController' = 0
     ELSE /\ uStreams' = [uStreams EXCEPT ![r].chunks = @ + 1]
          /\ UNCHANGED uController
  /\ UNCHANGED <<svars, ovars, pvars, stCall, vCall, vResult, aController, aTimeout, aRequests>>

\* reader.read() resolves with done, or rejects: onComplete or the catch
\* block, then the finally block.
ReadEnds(r) ==
  /\ uStreams[r].state = "reading"
  /\ uStreams' = [uStreams EXCEPT ![r].state = "settled"]
  /\ uController' = 0
  /\ UNCHANGED <<svars, ovars, pvars, stCall, vCall, vResult, aController, aTimeout, aRequests>>

\* stopStream()
StopStream ==
  /\ uStreams' = AbortStream(uStreams, uController)
  /\ uController' = 0
  /\ UNCHANGED <<svars, ovars, pvars, stCall, vCall, vResult, aController, aTimeout, aRequests>>

StreamingNext ==
  \/ StartStream
  \/ \E r \in Calls : FetchSettles(r)
  \/ \E r \in Calls : ReadChunk(r)
  \/ \E r \in Calls : ReadEnds(r)
  \/ StopStream

SpecStreaming == Init /\ [][StreamingNext]_vars

\* The stream started last, when it is in flight and its signal is not
\* aborted; 0 when there is none.
LatestStream ==
  LET started == {r \in Calls : uStreams[r].state # "idle"}
  IN  IF started = {} THEN 0
      ELSE LET m == CHOOSE r \in started : \A q \in started : q <= r
           IN  IF uStreams[m].state # "settled" /\ ~uStreams[m].aborted THEN m ELSE 0

\* C36: while the stream started last is in flight and its signal is not
\* aborted, the controller stopStream() aborts is its own, whatever
\* earlier startStream calls have done since.
C36_StreamStaysAbortable ==
  LatestStream # 0 => uController = LatestStream

\* C37: isStreaming is true whenever some sendMessage call has passed
\* startStreaming and has not reached its finally block.
C37_StreamingFlagTracksSend ==
  (\E s \in Sends : InFlight(s)) => runtime.isStreaming

\* C38: when the stream has ended, at the completion of the source or at
\* the sentinel, no tool-call fragment that received a name or an argument
\* chunk is left in the map of incomplete calls: each was emitted.
C38_NoPendingAtEnd ==
  sGen.status \in {"completed", "returned"}
    => \A k \in DOMAIN sGen.calls :
         sGen.calls[k].name = "" /\ sGen.calls[k].args = <<>>

\* C39: when the source completes, the events yielded are those of every
\* line of the body up to the sentinel, the last line included although
\* no newline follows it.
C39_LastLineDecoded ==
  sGen.status = "completed" => sGen.out = FramesRun(NewGen, sFrames).out

(***************************************************************************)
(* The messages store on its own: addMessage and updateLastMessage called  *)
(* with arbitrary arguments on the list built so far.  stCall records the  *)
(* call just made and its argument.                                        *)
(***************************************************************************)
StoreContents == {<<>>, <<"a">>}

\* The messages handed to addMessage.
StoreMessages ==
  {Message(1, role, content, "") : role \in {"user", "assistant"}, content \in StoreContents}

\* The objects handed to updateLastMessage: { content } and
\* { content, error: true }.
StoreUpdates ==
  {[content |-> c] : c \in StoreContents}
    \cup {[content |-> c, error |-> TRUE] : c \in StoreContents}

\* useMessagesStore.addMessage(m)
StoreAddMessage(m) ==
  /\ Len(messages) < MaxLog
  /\ messages' = AddMessage(messages, m)
  /\ stCall' = [op |-> "addMessage", message |-> m]
  /\ UNCHANGED <<svars, pvars, runtime, apiKey, sends, toolLog, lastCall,
                 vCall, vResult, aController, aTimeout, aRequests,
                 uController, uStreams>>

\* useMessagesStore.updateLastMessage(updates)
StoreUpdateLastMessage(updates) ==
  /\ messages' = IF "error" \in DOMAIN updates
                 THEN UpdateLastMessageError(messages, updates.content)
                 ELSE UpdateLastMessage(messages, updates.content)
  /\ stCall' = [op |-> "updateLastMessage", updates |-> updates]
  /\ UNCHANGED <<svars, pvars, runtime, apiKey, sends, toolLog, lastCall,
                 vCall, vResult, aController, aTimeout, aRequests,
                 uController, uStreams>>

StoreNext ==
  \/ \E m \in StoreMessages : StoreAddMessage(m)
  \/ \E updates \in StoreUpdates : StoreUpdateLastMessage(updates)

SpecStore == Init /\ [][StoreNext]_vars

\* C40: updateLastMessage keeps the length of the list and every entry but
\* the last, gives the last entry the fields of its argument and keeps the
\* entry's other fields, and leaves an empty list empty; addMessage makes
\* the list one longer, keeps every existing entry and puts the given
\* message last.
C40_StoreFrame ==
  [][LET n == Len(messages)
     IN  /\ stCall'.op = "updateLastMessage"
              => /\ Len(messages') = n
                 /\ \A i \in 1..(n - 1) : messages'[i] = messages[i]
                 /\ n = 0 => messages' = <<>>
                 /\ n > 0
                      => /\ DOMAIN messages'[n] = DOMAIN messages[n]
                         /\ \A f \in DOMAIN stCall'.updates :
                              messages'[n][f] = stCall'.updates[f]
                         /\ \A f \in DOMAIN messages[n] \ DOMAIN stCall'.updates :
                              messages'[n][f] = messages[n][f]
         /\ stCall'.op = "addMessage"
              => /\ Len(messages') = n + 1
                 /\ \A i \in 1..n : messages'[i] = messages[i]
                 /\ messages'[n + 1] = stCall'.message]_vars

C40_Witness ==
  /\ stCall.op = "updateLastMessage"
  /\ Len(messages) >= 2
  /\ "error" \in DOMAIN stCall.updates
  /\ messages[Len(messages)].content = stCall.updates.content
  /\ messages[Len(messages)].error
  /\ messages[1].content # stCall.updates.content
  /\ ~messages[1].error

====
